---- MODULE Spec2Model ----
(***************************************************************************)
(* Model of the FUSE fault-injection driver (src/fuse-driver/src).         *)
(*                                                                         *)
(* The state is the global configuration (config.c: global_config), the    *)
(* operation statistics (fault_injector.c: stats), the wall clock, the     *)
(* backing store served by fs_operations.c, and a record of the last call  *)
(* that went through one of the fs_fault_* wrappers of                     *)
(* fs_fault_injector.c.  There is one action per wrapper, plus Tick for    *)
(* the passing of time.                                                    *)
(*                                                                         *)
(* Probabilities, percentages and factors are floats in the source; the    *)
(* model holds them as integer hundredths (1.0f is 100).  rand() is a      *)
(* nondeterministic draw from 0..RandMax.  Time is held in seconds.        *)
(***************************************************************************)
EXTENDS Integers, Sequences, FiniteSets, TLC

\* ------------------------------------------------------------------ bounds
MaxCalls == 2
MaxSize == 2
MaxTicks == 2
RandMax == 2
MaxLen == 3
MaxNames == 2

\* --------------------------------------------------------- program constants
FS_OP_GETATTR == 0
FS_OP_READDIR == 1
FS_OP_CREATE == 2
FS_OP_MKNOD == 3
FS_OP_READ == 4
FS_OP_WRITE == 5
FS_OP_OPEN == 6
FS_OP_RELEASE == 7
FS_OP_MKDIR == 8
FS_OP_RMDIR == 9
FS_OP_UNLINK == 10
FS_OP_RENAME == 11
FS_OP_ACCESS == 12
FS_OP_CHMOD == 13
FS_OP_CHOWN == 14
FS_OP_TRUNCATE == 15
FS_OP_UTIMENS == 16
FS_OP_COUNT == 17

EIO == 5
ENOENT == 2
EACCES == 13
EEXIST == 17
ENOSPC == 28

\* 1.0f and 100.0 (percent), in the model's hundredths
ProbOne == 100

Ops == 0 .. (FS_OP_COUNT - 1)

\* operations_mask is a uint32_t: the set of its bit positions that are set
MaskBits == 0 .. 31
MASK_ALL == MaskBits
MASK_NONE == {}

\* access(2) mode bits
R_OK == "R"
W_OK == "W"

\* The content of a caller's read buffer before the call
Untouched == 0 - 1

\* proc is the position of main and what it was started with; thr is the
\* position of each thread that is inside the fault injector's counters or
\* inside the logger; logger is the statics of log.c and rng the seeding
\* state of the random generator
VARIABLES cfg, stats, now, fs, calls, sumWrite, sumRead, last, proc, thr, logger, rng

vars == <<cfg, stats, now, fs, calls, sumWrite, sumRead, last, proc, thr, logger, rng>>

\* A command line without --storage, --log and --loglevel, and an
\* environment without NAS_STORAGE_PATH, NAS_LOG_FILE and NAS_LOG_LEVEL
NoArgs == [storage |-> "NULL", log |-> "NULL", loglevel |-> "NULL"]
NoEnv == [NAS_STORAGE_PATH |-> "NULL", NAS_LOG_FILE |-> "NULL", NAS_LOG_LEVEL |-> "NULL"]

\* struct fs_fault_options after memset(&options, 0, sizeof(options)), and
\* the paths and log level of the static global_config before config_init
NoOptions == [storage_path |-> "NULL", log_file |-> "NULL", log_level |-> 0]
NoSettings == [storage_path |-> "NULL", log_file |-> "NULL", log_level |-> 0]

\* The built-in defaults of config_init
Defaults == [storage_path |-> "/var/nas-storage", log_file |-> "/var/log/nas-emu.log",
             log_level |-> 2]

\* main inside fuse_main, started without options and environment
Serving == [pc |-> "fuse_main", config_file |-> "NULL", loaded |-> FALSE, ret |-> 0,
            argv |-> NoArgs, env |-> NoEnv, options |-> NoOptions, settings |-> Defaults]

\* The threads that serve requests, and a thread that serves none
Threads == {1, 2}
Idle == [pc |-> "idle", op |-> 0 - 1, old_count |-> 0, new_count |-> 0, tmp |-> 0]

\* ------------------------------------------------------------ config.c
NoError == [present |-> FALSE, probability |-> 0, error_code |-> 0, operations_mask |-> MASK_NONE]
NoCorruption == [present |-> FALSE, probability |-> 0, percentage |-> 0, silent |-> TRUE, operations_mask |-> MASK_NONE]
NoDelay == [present |-> FALSE, probability |-> 0, delay_ms |-> 0, operations_mask |-> MASK_NONE]
NoTiming == [present |-> FALSE, enabled |-> FALSE, after_minutes |-> 0, operations_mask |-> MASK_NONE]
NoCount == [present |-> FALSE, enabled |-> FALSE, every_n_operations |-> 0, after_bytes |-> 0, operations_mask |-> MASK_NONE]
NoPartial == [present |-> FALSE, probability |-> 0, factor |-> 0, operations_mask |-> MASK_NONE]

\* config_init: fault injection off, every fault pointer NULL
config_init ==
    [enable_fault_injection |-> FALSE,
     error_fault |-> NoError,
     corruption_fault |-> NoCorruption,
     delay_fault |-> NoDelay,
     timing_fault |-> NoTiming,
     operation_count_fault |-> NoCount,
     partial_fault |-> NoPartial]

\* A configuration file: whether fopen finds it, the keys before the first
\* section header, and the keys of each section it holds.  A probability,
\* percentage or factor is the number atof returns, in hundredths.
Key_IgnoresFile(keys, k, default) == default

Key(keys, k, default) == IF k \in DOMAIN keys THEN keys[k] ELSE default

\* strcmp(v, "true") == 0 || strcmp(v, "1") == 0
ParseBool(v) == v = "true" \/ v = "1"

\* config_load_from_file: a section header allocates the fault with its
\* defaults, a key stores the converted value; nothing is range-checked.
\* The files modelled hold no operations key: each mask keeps its default.
config_load_from_file(config, file) ==
    IF ~file.exists THEN [ok |-> FALSE, config |-> config]
    ELSE LET has(sec) == sec \in DOMAIN file.sections
             keys(sec) == file.sections[sec]
         IN [ok |-> TRUE,
             config |->
               [enable_fault_injection |->
                    IF "enable_fault_injection" \in DOMAIN file.global
                    THEN ParseBool(file.global["enable_fault_injection"])
                    ELSE config.enable_fault_injection,
                error_fault |->
                    IF ~has("error_fault") THEN config.error_fault
                    ELSE [present |-> TRUE,
                          probability |-> Key(keys("error_fault"), "probability", 50),
                          error_code |-> Key(keys("error_fault"), "error_code", 0 - EIO),
                          operations_mask |-> MASK_ALL],
                corruption_fault |->
                    IF ~has("corruption_fault") THEN config.corruption_fault
                    ELSE [present |-> TRUE,
                          probability |-> Key(keys("corruption_fault"), "probability", 50),
                          percentage |-> Key(keys("corruption_fault"), "percentage", 10),
                          silent |-> ParseBool(Key(keys("corruption_fault"), "silent", "true")),
                          operations_mask |-> {FS_OP_WRITE}],
                delay_fault |->
                    IF ~has("delay_fault") THEN config.delay_fault
                    ELSE [present |-> TRUE,
                          probability |-> Key(keys("delay_fault"), "probability", 50),
                          delay_ms |-> Key(keys("delay_fault"), "delay_ms", 500),
                          operations_mask |-> MASK_ALL],
                timing_fault |->
                    IF ~has("timing_fault") THEN config.timing_fault
                    ELSE [present |-> TRUE,
                          enabled |-> ParseBool(Key(keys("timing_fault"), "enabled", "false")),
                          after_minutes |-> Key(keys("timing_fault"), "after_minutes", 5),
                          operations_mask |-> MASK_ALL],
                operation_count_fault |->
                    IF ~has("operation_count_fault") THEN config.operation_count_fault
                    ELSE [present |-> TRUE,
                          enabled |-> ParseBool(Key(keys("operation_count_fault"),
                                                    "enabled", "false")),
                          every_n_operations |-> Key(keys("operation_count_fault"),
                                                     "every_n_operations", 10),
                          after_bytes |-> Key(keys("operation_count_fault"),
                                              "after_bytes", 1024 * 1024),
                          operations_mask |-> MASK_ALL],
                partial_fault |->
                    IF ~has("partial_fault") THEN config.partial_fault
                    ELSE [present |-> TRUE,
                          probability |-> Key(keys("partial_fault"), "probability", 50),
                          factor |-> Key(keys("partial_fault"), "factor", 50),
                          operations_mask |-> {FS_OP_READ, FS_OP_WRITE}]]]

\* atoi on the strings a log level is written as; a string without a
\* leading number converts to 0
atoi(v) ==
    IF v = "0" THEN 0
    ELSE IF v = "1" THEN 1
    ELSE IF v = "2" THEN 2
    ELSE IF v = "3" THEN 3
    ELSE 0

\* config_init, the paths and the log level: the environment variable
\* when getenv finds it, the built-in default otherwise
config_init_settings(env) ==
    [storage_path |-> IF env.NAS_STORAGE_PATH # "NULL" THEN env.NAS_STORAGE_PATH
                      ELSE Defaults.storage_path,
     log_file |-> IF env.NAS_LOG_FILE # "NULL" THEN env.NAS_LOG_FILE
                  ELSE Defaults.log_file,
     log_level |-> IF env.NAS_LOG_LEVEL # "NULL" THEN atoi(env.NAS_LOG_LEVEL)
                   ELSE Defaults.log_level]

\* config_load_from_file, the keys before the first section header that
\* name a path or the log level
config_load_settings(settings, file) ==
    IF ~file.exists THEN settings
    ELSE [storage_path |-> Key(file.global, "storage_path", settings.storage_path),
          log_file |-> Key(file.global, "log_file", settings.log_file),
          log_level |-> IF "log_level" \in DOMAIN file.global
                        THEN atoi(file.global["log_level"])
                        ELSE settings.log_level]

config_should_affect_operation_AnyBit(operations_mask, operation) ==
    operations_mask # MASK_NONE

config_should_affect_operation(operations_mask, operation) ==
    IF operations_mask = MASK_NONE THEN FALSE
    ELSE IF operations_mask = MASK_ALL THEN TRUE
    ELSE operation \in operations_mask

\* fs_op_names, indexed by fs_op_type_t
fs_op_names ==
    [o \in Ops |->
        CASE o = FS_OP_GETATTR -> "getattr"
          [] o = FS_OP_READDIR -> "readdir"
          [] o = FS_OP_CREATE -> "create"
          [] o = FS_OP_MKNOD -> "mknod"
          [] o = FS_OP_READ -> "read"
          [] o = FS_OP_WRITE -> "write"
          [] o = FS_OP_OPEN -> "open"
          [] o = FS_OP_RELEASE -> "release"
          [] o = FS_OP_MKDIR -> "mkdir"
          [] o = FS_OP_RMDIR -> "rmdir"
          [] o = FS_OP_UNLINK -> "unlink"
          [] o = FS_OP_RENAME -> "rename"
          [] o = FS_OP_ACCESS -> "access"
          [] o = FS_OP_CHMOD -> "chmod"
          [] o = FS_OP_CHOWN -> "chown"
          [] o = FS_OP_TRUNCATE -> "truncate"
          [] o = FS_OP_UTIMENS -> "utimens"]

\* A string is a sequence of pieces: the comma ",", the blank " ", and
\* words, a word standing for its characters written without a break.  No
\* word used is made of other words, so two strings are equal (strcmp) when
\* their sequences are.
\* strtok(str, ","): the non-empty stretches between commas, in order
RECURSIVE strtok(_)
strtok(str) ==
    IF str = <<>> THEN <<>>
    ELSE IF Head(str) = "," THEN strtok(Tail(str))
    ELSE LET n == IF \E i \in 1 .. Len(str) : str[i] = ","
                  THEN (CHOOSE i \in 1 .. Len(str) :
                           str[i] = "," /\ \A j \in 1 .. i - 1 : str[j] # ",") - 1
                  ELSE Len(str)
         IN <<SubSeq(str, 1, n)>> \o strtok(SubSeq(str, n + 1, Len(str)))

\* while (*token && isspace(*token)) token++;
RECURSIVE TrimLeading(_)
TrimLeading(token) ==
    IF token # <<>> /\ Head(token) = " " THEN TrimLeading(Tail(token)) ELSE token

\* end = token + strlen(token) - 1; while (end > token && isspace(*end))
\* *end-- = 0;  the first character is never cut
RECURSIVE TrimTrailing(_)
TrimTrailing(token) ==
    IF Len(token) > 1 /\ token[Len(token)] = " "
    THEN TrimTrailing(SubSeq(token, 1, Len(token) - 1))
    ELSE token

config_parse_operations_mask_NoTrailingTrim(operations_str) ==
    IF operations_str = <<>> THEN MASK_NONE
    ELSE IF operations_str = <<"all">> \/ operations_str = <<"*">> THEN MASK_ALL
    ELSE LET tokens == strtok(operations_str)
         IN {o \in Ops : \E k \in 1 .. Len(tokens) :
                            TrimLeading(tokens[k]) = <<fs_op_names[o]>>}

\* NULL is not passed by any caller modelled; a mask is the set of its bits
config_parse_operations_mask(operations_str) ==
    IF operations_str = <<>> THEN MASK_NONE
    ELSE IF operations_str = <<"all">> \/ operations_str = <<"*">> THEN MASK_ALL
    ELSE LET tokens == strtok(operations_str)
         IN {o \in Ops : \E k \in 1 .. Len(tokens) :
                            TrimTrailing(TrimLeading(tokens[k])) = <<fs_op_names[o]>>}

\* ------------------------------------------------------------------ log.c
\* log_level_t
LOG_ERROR == 0
LOG_WARN == 1
LOG_INFO == 2
LOG_DEBUG == 3

\* The statics of log.c when the process starts; mutex is the thread that
\* holds log_mutex, 0 when it is free, and open tells whether the stream
\* log_file_handle points at is open
NoLogger == [handle |-> "NULL", open |-> FALSE, level |-> LOG_INFO, mutex |-> 0]

\* log_init, from lock to unlock: the level is set, the previous file is
\* closed and the new one opened; stdout when no file is named
log_init(lg, log_file, level) ==
    [lg EXCEPT !.level = level,
               !.handle = IF log_file \in {"NULL", "stdout"} THEN "stdout" ELSE "file",
               !.open = TRUE]

\* log_close, from lock to unlock
log_close(lg) == [lg EXCEPT !.handle = "NULL", !.open = FALSE]

pthread_mutex_unlock_Keeps(lg) == lg

\* pthread_mutex_unlock(&log_mutex)
pthread_mutex_unlock(lg) == [lg EXCEPT !.mutex = 0]

\* ------------------------------------------------------- fault_injector.c
\* static bool rng_seeded = false; srand_calls counts the calls of srand
Unseeded == [seeded |-> FALSE, srand_calls |-> 0]

srand_once_Always(r) == [seeded |-> TRUE, srand_calls |-> r.srand_calls + 1]

\* if (!rng_seeded) { srand(time(NULL)); rng_seeded = true; }
srand_once(r) ==
    IF ~r.seeded THEN [seeded |-> TRUE, srand_calls |-> r.srand_calls + 1] ELSE r

\* fault_injector_init: memset(&stats, 0), start_time = time(NULL)
fault_injector_init(t) ==
    [bytes_read |-> 0, bytes_written |-> 0, operation_count |-> 0,
     start_time |-> t, op_counts |-> [o \in Ops |-> 0]]

\* r is the value rand() returns when the draw is made
check_probability_NoFloor(probability, r) ==
    IF probability >= ProbOne THEN TRUE
    ELSE r * ProbOne <= probability * RandMax

check_probability(probability, r) ==
    IF probability <= 0 THEN FALSE
    ELSE IF probability >= ProbOne THEN TRUE
    ELSE r * ProbOne < probability * RandMax

check_timing_fault_StrictlyAfter(c, st, t, operation) ==
    IF ~c.enable_fault_injection \/ ~c.timing_fault.present \/ ~c.timing_fault.enabled
    THEN FALSE
    ELSE IF ~config_should_affect_operation(c.timing_fault.operations_mask, operation)
    THEN FALSE
    ELSE IF c.timing_fault.after_minutes > 0
    THEN ~((t - st.start_time) <= 60 * c.timing_fault.after_minutes)
    ELSE FALSE

check_timing_fault_OnlyFirstMinute(c, st, t, operation) ==
    IF ~c.enable_fault_injection \/ ~c.timing_fault.present \/ ~c.timing_fault.enabled
    THEN FALSE
    ELSE IF ~config_should_affect_operation(c.timing_fault.operations_mask, operation)
    THEN FALSE
    ELSE IF c.timing_fault.after_minutes > 0
    THEN /\ ~((t - st.start_time) < 60 * c.timing_fault.after_minutes)
         /\ (t - st.start_time) < 60 * (c.timing_fault.after_minutes + 1)
    ELSE FALSE

\* difftime(now, start_time) / 60.0 < after_minutes, in whole seconds
check_timing_fault(c, st, t, operation) ==
    IF ~c.enable_fault_injection \/ ~c.timing_fault.present \/ ~c.timing_fault.enabled
    THEN FALSE
    ELSE IF ~config_should_affect_operation(c.timing_fault.operations_mask, operation)
    THEN FALSE
    ELSE IF c.timing_fault.after_minutes > 0
    THEN ~((t - st.start_time) < 60 * c.timing_fault.after_minutes)
    ELSE FALSE

check_operation_count_fault_StrictlyMore(c, st, operation) ==
    IF ~c.enable_fault_injection \/ ~c.operation_count_fault.present
       \/ ~c.operation_count_fault.enabled
    THEN FALSE
    ELSE IF ~config_should_affect_operation(c.operation_count_fault.operations_mask, operation)
    THEN FALSE
    ELSE IF c.operation_count_fault.every_n_operations > 0
            /\ st.operation_count % c.operation_count_fault.every_n_operations = 0
    THEN TRUE
    ELSE IF c.operation_count_fault.after_bytes > 0
            /\ (st.bytes_read + st.bytes_written) > c.operation_count_fault.after_bytes
    THEN TRUE
    ELSE FALSE

check_operation_count_fault(c, st, operation) ==
    IF ~c.enable_fault_injection \/ ~c.operation_count_fault.present
       \/ ~c.operation_count_fault.enabled
    THEN FALSE
    ELSE IF ~config_should_affect_operation(c.operation_count_fault.operations_mask, operation)
    THEN FALSE
    ELSE IF c.operation_count_fault.every_n_operations > 0
            /\ st.operation_count % c.operation_count_fault.every_n_operations = 0
    THEN TRUE
    ELSE IF c.operation_count_fault.after_bytes > 0
            /\ (st.bytes_read + st.bytes_written) >= c.operation_count_fault.after_bytes
    THEN TRUE
    ELSE FALSE

apply_error_fault_NoMasterSwitch(c, operation, error_code, r) ==
    IF ~c.error_fault.present
    THEN [fired |-> FALSE, error_code |-> error_code]
    ELSE IF ~config_should_affect_operation(c.error_fault.operations_mask, operation)
    THEN [fired |-> FALSE, error_code |-> error_code]
    ELSE IF ~check_probability(c.error_fault.probability, r)
    THEN [fired |-> FALSE, error_code |-> error_code]
    ELSE [fired |-> TRUE, error_code |-> c.error_fault.error_code]

\* error_code is the caller's variable, written only when the fault fires
apply_error_fault(c, operation, error_code, r) ==
    IF ~c.enable_fault_injection \/ ~c.error_fault.present
    THEN [fired |-> FALSE, error_code |-> error_code]
    ELSE IF ~config_should_affect_operation(c.error_fault.operations_mask, operation)
    THEN [fired |-> FALSE, error_code |-> error_code]
    ELSE IF ~check_probability(c.error_fault.probability, r)
    THEN [fired |-> FALSE, error_code |-> error_code]
    ELSE [fired |-> TRUE, error_code |-> c.error_fault.error_code]

\* TRUE when usleep(delay_ms * 1000) was called
apply_delay_fault(c, operation, r) ==
    IF ~c.enable_fault_injection \/ ~c.delay_fault.present THEN FALSE
    ELSE IF ~config_should_affect_operation(c.delay_fault.operations_mask, operation)
    THEN FALSE
    ELSE check_probability(c.delay_fault.probability, r)

apply_partial_fault_NoMinimum(c, operation, original_size, r) ==
    IF ~c.enable_fault_injection \/ ~c.partial_fault.present \/ original_size = 0
    THEN [fired |-> FALSE, size |-> original_size]
    ELSE IF ~config_should_affect_operation(c.partial_fault.operations_mask, operation)
    THEN [fired |-> FALSE, size |-> original_size]
    ELSE IF ~check_probability(c.partial_fault.probability, r)
    THEN [fired |-> FALSE, size |-> original_size]
    ELSE [fired |-> TRUE, size |-> (original_size * c.partial_fault.factor) \div ProbOne]

apply_partial_fault_KeepsSize(c, operation, original_size, r) ==
    IF ~c.enable_fault_injection \/ ~c.partial_fault.present \/ original_size = 0
    THEN [fired |-> FALSE, size |-> original_size]
    ELSE IF ~config_should_affect_operation(c.partial_fault.operations_mask, operation)
    THEN [fired |-> FALSE, size |-> original_size]
    ELSE IF ~check_probability(c.partial_fault.probability, r)
    THEN [fired |-> FALSE, size |-> original_size]
    ELSE [fired |-> TRUE, size |-> original_size]

\* (size_t)(original_size * factor), factor in hundredths
apply_partial_fault(c, operation, original_size, r) ==
    IF ~c.enable_fault_injection \/ ~c.partial_fault.present \/ original_size = 0
    THEN [fired |-> FALSE, size |-> original_size]
    ELSE IF ~config_should_affect_operation(c.partial_fault.operations_mask, operation)
    THEN [fired |-> FALSE, size |-> original_size]
    ELSE IF ~check_probability(c.partial_fault.probability, r)
    THEN [fired |-> FALSE, size |-> original_size]
    ELSE LET new_size == (original_size * c.partial_fault.factor) \div ProbOne
         IN [fired |-> TRUE, size |-> IF new_size = 0 THEN 1 ELSE new_size]

\* The loop of apply_corruption_fault: strikes[i] = <<rand(), rand()>> of
\* iteration i; pos = rand() % size, corrupted = rand() % 256
RECURSIVE CorruptLoop(_, _, _)
CorruptLoop(buffer, strikes, i) ==
    IF i > Len(strikes) THEN buffer
    ELSE LET pos == strikes[i][1] % Len(buffer)
             corrupted == strikes[i][2] % 256
         IN CorruptLoop([buffer EXCEPT ![pos + 1] = corrupted], strikes, i + 1)

corrupt_bytes_NoMinimum(percentage, size) ==
    LET k == (size * percentage) \div ProbOne
    IN IF k > size THEN size ELSE k

\* Number of loop iterations apply_corruption_fault makes on size bytes
corrupt_bytes(percentage, size) ==
    LET k == (size * percentage) \div ProbOne
        k1 == IF k = 0 /\ percentage > 0 THEN 1 ELSE k
    IN IF k1 > size THEN size ELSE k1

\* The rand() pairs of k iterations of the corruption loop
StrikeSeqs(k) == [1 .. k -> (0 .. RandMax) \X (0 .. RandMax)]

\* The indexes the loop writes at: pos = rand() % size at each iteration
StrikePositions(strikes, size) == [i \in 1 .. Len(strikes) |-> strikes[i][1] % size]

\* Iterations of the loop when apply_corruption_fault runs on size bytes
CorruptionLoops(c, size) ==
    IF size = 0 \/ c.corruption_fault.percentage < 0
       \/ c.corruption_fault.percentage > ProbOne
    THEN 0
    ELSE corrupt_bytes(c.corruption_fault.percentage, size)

\* buffer is a sequence (never the NULL pointer in the callers modelled)
apply_corruption_fault(c, operation, buffer, r, strikes) ==
    IF ~c.enable_fault_injection \/ ~c.corruption_fault.present
    THEN [fired |-> FALSE, buffer |-> buffer]
    ELSE IF Len(buffer) = 0
    THEN [fired |-> FALSE, buffer |-> buffer]
    ELSE IF ~config_should_affect_operation(c.corruption_fault.operations_mask, operation)
    THEN [fired |-> FALSE, buffer |-> buffer]
    ELSE IF ~check_probability(c.corruption_fault.probability, r)
    THEN [fired |-> FALSE, buffer |-> buffer]
    ELSE IF c.corruption_fault.percentage < 0 \/ c.corruption_fault.percentage > ProbOne
    THEN [fired |-> FALSE, buffer |-> buffer]
    ELSE [fired |-> TRUE,
          buffer |-> CorruptLoop(buffer,
                                 SubSeq(strikes, 1,
                                        corrupt_bytes(c.corruption_fault.percentage, Len(buffer))),
                                 1)]

should_trigger_fault_NoMasterSwitch(c, st, t, operation) ==
    [fault |-> FALSE, timing |-> FALSE, count |-> FALSE,
     stats |-> [st EXCEPT !.operation_count = @ + 1, !.op_counts[operation] = @ + 1]]

\* Counts the operation, then checks timing on the new count and the
\* operation count fault on the restored old count
should_trigger_fault(c, st, t, operation) ==
    IF ~c.enable_fault_injection
    THEN [fault |-> FALSE, timing |-> FALSE, count |-> FALSE, stats |-> st]
    ELSE LET old_count == st.operation_count
             counted == [st EXCEPT !.operation_count = @ + 1,
                                   !.op_counts[operation] = @ + 1]
             restored == [counted EXCEPT !.operation_count = old_count]
         IN IF check_timing_fault(c, counted, t, operation)
            THEN [fault |-> TRUE, timing |-> TRUE, count |-> FALSE, stats |-> counted]
            ELSE IF check_operation_count_fault(c, restored, operation)
            THEN [fault |-> TRUE, timing |-> FALSE, count |-> TRUE, stats |-> counted]
            ELSE [fault |-> FALSE, timing |-> FALSE, count |-> FALSE, stats |-> counted]

update_operation_stats_ReadsOnly(st, operation, bytes) ==
    IF operation = FS_OP_READ THEN [st EXCEPT !.bytes_read = @ + bytes]
    ELSE st

update_operation_stats(st, operation, bytes) ==
    IF operation = FS_OP_READ THEN [st EXCEPT !.bytes_read = @ + bytes]
    ELSE IF operation = FS_OP_WRITE THEN [st EXCEPT !.bytes_written = @ + bytes]
    ELSE st

\* ------------------------------------------------------- fs_operations.c
\* The backing store: one regular file /f (owner permission bits r and w,
\* content data), one directory /d, and the storage root, which fs_ops_init
\* creates with mode 0755 and which always exists.  full: the device has no
\* space left, and pwrite fails with ENOSPC.
Modes == [r : BOOLEAN, w : BOOLEAN]
ModeRW == [r |-> TRUE, w |-> TRUE]

\* check_file_perms on /f: lstat, then the owner bits against the mode asked
check_file_perms(fsys, mode) ==
    IF ~fsys.exists THEN 0 - ENOENT
    ELSE IF R_OK \in mode /\ ~fsys.r THEN 0 - EACCES
    ELSE IF W_OK \in mode /\ ~fsys.w THEN 0 - EACCES
    ELSE 0

\* check_file_perms on the storage root (mode 0755)
check_root_perms(fsys, mode) == 0

Result(ret, fsys, buf) == [ret |-> ret, fs |-> fsys, buf |-> buf]

fs_op_access(fsys, mode) == check_file_perms(fsys, mode)

fs_op_getattr(fsys) ==
    Result(IF fsys.exists THEN 0 ELSE 0 - ENOENT, fsys, <<>>)

fs_op_readdir(fsys) ==
    Result(check_root_perms(fsys, {R_OK}), fsys, <<>>)

\* creat(): O_CREAT | O_WRONLY | O_TRUNC
fs_op_create(fsys, mode) ==
    IF fsys.exists /\ check_file_perms(fsys, {W_OK}) # 0
    THEN Result(check_file_perms(fsys, {W_OK}), fsys, <<>>)
    ELSE IF fsys.exists
    THEN Result(0, [fsys EXCEPT !.data = <<>>], <<>>)
    ELSE Result(0, [fsys EXCEPT !.exists = TRUE, !.r = mode.r, !.w = mode.w,
                                !.data = <<>>], <<>>)

\* S_ISREG: open(O_CREAT | O_EXCL | O_WRONLY)
fs_op_mknod(fsys, mode) ==
    IF check_root_perms(fsys, {W_OK}) # 0
    THEN Result(check_root_perms(fsys, {W_OK}), fsys, <<>>)
    ELSE IF fsys.exists THEN Result(0 - EEXIST, fsys, <<>>)
    ELSE Result(0, [fsys EXCEPT !.exists = TRUE, !.r = mode.r, !.w = mode.w,
                                !.data = <<>>], <<>>)

Min(a, b) == IF a < b THEN a ELSE b
Max(a, b) == IF a > b THEN a ELSE b

pread_IgnoresOffset(data, buf, size, offset) ==
    LET n == Max(0, Min(size, Len(data) - offset))
    IN [ret |-> n,
        buf |-> [i \in 1 .. Max(Len(buf), n) |-> IF i <= n THEN data[i] ELSE buf[i]]]

\* pread(fd, buf, size, offset): the bytes read land at the start of buf,
\* and past its end when size is larger than the buffer
pread(data, buf, size, offset) ==
    LET n == Max(0, Min(size, Len(data) - offset))
    IN [ret |-> n,
        buf |-> [i \in 1 .. Max(Len(buf), n) |->
                    IF i <= n THEN data[offset + i] ELSE buf[i]]]

\* pwrite(fd, buf, size, offset): a hole before offset reads as zeros
pwrite(data, buf, size, offset) ==
    IF size = 0 THEN data
    ELSE [i \in 1 .. Max(Len(data), offset + size) |->
             IF i > offset /\ i <= offset + size THEN buf[i - offset]
             ELSE IF i <= Len(data) THEN data[i]
             ELSE 0]

\* fi is "NULL" or "fh", an open handle on /f
fs_op_read(fsys, buf, size, offset, fi) ==
    IF fi = "NULL" /\ check_file_perms(fsys, {R_OK}) # 0
    THEN Result(check_file_perms(fsys, {R_OK}), fsys, buf)
    ELSE LET p == pread(fsys.data, buf, size, offset)
         IN Result(p.ret, fsys, p.buf)

fs_op_write(fsys, buf, size, offset, fi) ==
    IF fi = "NULL" /\ check_file_perms(fsys, {W_OK}) # 0
    THEN Result(check_file_perms(fsys, {W_OK}), fsys, buf)
    ELSE IF fsys.full THEN Result(0 - ENOSPC, fsys, buf)
    ELSE Result(size, [fsys EXCEPT !.data = pwrite(fsys.data, buf, size, offset)], buf)

\* flags is the access mode of fi->flags: the set of permissions it asks
fs_op_open(fsys, flags) ==
    Result(check_file_perms(fsys, flags), fsys, <<>>)

fs_op_release(fsys) == Result(0, fsys, <<>>)

fs_op_mkdir(fsys) ==
    IF check_root_perms(fsys, {W_OK}) # 0
    THEN Result(check_root_perms(fsys, {W_OK}), fsys, <<>>)
    ELSE IF fsys.dir THEN Result(0 - EEXIST, fsys, <<>>)
    ELSE Result(0, [fsys EXCEPT !.dir = TRUE], <<>>)

fs_op_rmdir(fsys) ==
    IF check_root_perms(fsys, {W_OK}) # 0
    THEN Result(check_root_perms(fsys, {W_OK}), fsys, <<>>)
    ELSE IF ~fsys.dir THEN Result(0 - ENOENT, fsys, <<>>)
    ELSE Result(0, [fsys EXCEPT !.dir = FALSE], <<>>)

fs_op_unlink(fsys) ==
    IF check_root_perms(fsys, {W_OK}) # 0
    THEN Result(check_root_perms(fsys, {W_OK}), fsys, <<>>)
    ELSE IF ~fsys.exists THEN Result(0 - ENOENT, fsys, <<>>)
    ELSE Result(0, [fsys EXCEPT !.exists = FALSE, !.data = <<>>], <<>>)

\* rename(path, newpath) with newpath naming the same file: the permission
\* checks run, rename(2) of a file onto itself changes nothing
fs_op_rename(fsys) ==
    Result(check_file_perms(fsys, {W_OK}), fsys, <<>>)

fs_op_chmod(fsys, mode) ==
    IF check_file_perms(fsys, {W_OK}) # 0
    THEN Result(check_file_perms(fsys, {W_OK}), fsys, <<>>)
    ELSE Result(0, [fsys EXCEPT !.r = mode.r, !.w = mode.w], <<>>)

fs_op_chown(fsys) ==
    Result(check_file_perms(fsys, {W_OK}), fsys, <<>>)

\* truncate(2): cut, or extend with zeros
fs_op_truncate(fsys, size) ==
    IF check_file_perms(fsys, {W_OK}) # 0
    THEN Result(check_file_perms(fsys, {W_OK}), fsys, <<>>)
    ELSE Result(0, [fsys EXCEPT !.data = [i \in 1 .. size |->
                                   IF i <= Len(fsys.data) THEN fsys.data[i] ELSE 0]], <<>>)

fs_op_utimens(fsys) ==
    Result(check_file_perms(fsys, {W_OK}), fsys, <<>>)

\* ----------------------------------------------------- fs_fault_injector.c
\* What one call through a wrapper did: its return code, the faults that
\* fired, and the buffers.  buf is the caller's buffer after the call;
\* be_size and be_buf are the size and buffer handed to the backend; heap is
\* what the call did with corrupted_buf, in order.
NoCall ==
    [op |-> 0 - 1, ret |-> 0, short |-> FALSE, error |-> FALSE, timing |-> FALSE,
     count |-> FALSE, slept |-> FALSE, denied |-> FALSE, backend |-> FALSE,
     partial |-> FALSE, corrupt |-> FALSE, alloc_failed |-> FALSE,
     size |-> 0, offset |-> 0, be_size |-> 0, buf |-> <<>>, be_buf |-> <<>>,
     fi |-> "NULL", heap |-> <<>>,
     identical |-> TRUE]

Outcome(info, st, fsys) == [info |-> info, stats |-> st, fs |-> fsys]

\* The body shared by the wrappers of every operation but read and write
\* (fs_fault_getattr is the first of them): should_trigger_fault, then the
\* error fault unless that already decided, the delay fault, the wrapper's
\* access check (acc; 0 when it has none), and the backend call (be).
SimpleWrapper_DelayFirst(c, st, t, fsys, op, rE, rD, acc, be) ==
    LET slept == apply_delay_fault(c, op, rD)
        trig == should_trigger_fault(c, st, t, op)
        err == IF trig.fault THEN [fired |-> FALSE, error_code |-> 0 - EIO]
               ELSE apply_error_fault(c, op, 0 - EIO, rE)
        base == [NoCall EXCEPT !.op = op, !.slept = slept]
    IN IF trig.fault \/ err.fired
       THEN Outcome([base EXCEPT !.ret = err.error_code, !.short = TRUE,
                                 !.error = err.fired, !.timing = trig.timing,
                                 !.count = trig.count], trig.stats, fsys)
       ELSE IF acc # 0
       THEN Outcome([base EXCEPT !.ret = acc, !.denied = TRUE], trig.stats, fsys)
       ELSE Outcome([base EXCEPT !.ret = be.ret, !.backend = TRUE], trig.stats, be.fs)

SimpleWrapper_DelaySkipsBackend(c, st, t, fsys, op, rE, rD, acc, be) ==
    LET trig == should_trigger_fault(c, st, t, op)
        err == IF trig.fault THEN [fired |-> FALSE, error_code |-> 0 - EIO]
               ELSE apply_error_fault(c, op, 0 - EIO, rE)
        base == [NoCall EXCEPT !.op = op]
    IN IF trig.fault \/ err.fired
       THEN Outcome([base EXCEPT !.ret = err.error_code, !.short = TRUE,
                                 !.error = err.fired, !.timing = trig.timing,
                                 !.count = trig.count], trig.stats, fsys)
       ELSE LET slept == apply_delay_fault(c, op, rD)
            IN IF acc # 0
               THEN Outcome([base EXCEPT !.ret = acc, !.denied = TRUE, !.slept = slept],
                            trig.stats, fsys)
               ELSE IF slept
               THEN Outcome([base EXCEPT !.ret = 0, !.backend = TRUE, !.slept = slept],
                            trig.stats, fsys)
               ELSE Outcome([base EXCEPT !.ret = be.ret, !.backend = TRUE,
                                         !.slept = slept], trig.stats, be.fs)

SimpleWrapper_BackendFirst(c, st, t, fsys, op, rE, rD, acc, be) ==
    LET trig == should_trigger_fault(c, st, t, op)
        err == IF trig.fault THEN [fired |-> FALSE, error_code |-> 0 - EIO]
               ELSE apply_error_fault(c, op, 0 - EIO, rE)
        base == [NoCall EXCEPT !.op = op]
    IN IF trig.fault \/ err.fired
       THEN Outcome([base EXCEPT !.ret = err.error_code, !.short = TRUE,
                                 !.error = err.fired, !.timing = trig.timing,
                                 !.count = trig.count], trig.stats, be.fs)
       ELSE LET slept == apply_delay_fault(c, op, rD)
            IN IF acc # 0
               THEN Outcome([base EXCEPT !.ret = acc, !.denied = TRUE, !.slept = slept],
                            trig.stats, fsys)
               ELSE Outcome([base EXCEPT !.ret = be.ret, !.backend = TRUE,
                                         !.slept = slept], trig.stats, be.fs)

SimpleWrapper(c, st, t, fsys, op, rE, rD, acc, be) ==
    LET trig == should_trigger_fault(c, st, t, op)
        err == IF trig.fault THEN [fired |-> FALSE, error_code |-> 0 - EIO]
               ELSE apply_error_fault(c, op, 0 - EIO, rE)
        base == [NoCall EXCEPT !.op = op]
    IN IF trig.fault \/ err.fired
       THEN Outcome([base EXCEPT !.ret = err.error_code, !.short = TRUE,
                                 !.error = err.fired, !.timing = trig.timing,
                                 !.count = trig.count], trig.stats, fsys)
       ELSE LET slept == apply_delay_fault(c, op, rD)
            IN IF acc # 0
               THEN Outcome([base EXCEPT !.ret = acc, !.denied = TRUE, !.slept = slept],
                            trig.stats, fsys)
               ELSE Outcome([base EXCEPT !.ret = be.ret, !.backend = TRUE,
                                         !.slept = slept], trig.stats, be.fs)

\* fs_fault_read: d holds the rand() draws of the call
ReadWrapper(c, st, t, fsys, buf, size, offset, fi, d) ==
    LET trig == should_trigger_fault(c, st, t, FS_OP_READ)
        err == IF trig.fault THEN [fired |-> FALSE, error_code |-> 0 - EIO]
               ELSE apply_error_fault(c, FS_OP_READ, 0 - EIO, d.error)
        base == [NoCall EXCEPT !.op = FS_OP_READ, !.size = size, !.offset = offset,
                              !.buf = buf, !.fi = fi]
    IN IF trig.fault \/ err.fired
       THEN Outcome([base EXCEPT !.ret = err.error_code, !.short = TRUE,
                                 !.error = err.fired, !.timing = trig.timing,
                                 !.count = trig.count], trig.stats, fsys)
       ELSE LET slept == apply_delay_fault(c, FS_OP_READ, d.delay)
                acc == IF fi = "NULL" THEN fs_op_access(fsys, {R_OK}) ELSE 0
            IN IF acc # 0
               THEN Outcome([base EXCEPT !.ret = acc, !.denied = TRUE, !.slept = slept],
                            trig.stats, fsys)
               ELSE LET adj == apply_partial_fault(c, FS_OP_READ, size, d.partial)
                        be == fs_op_read(fsys, buf, adj.size, offset, fi)
                    IN Outcome([base EXCEPT !.ret = be.ret, !.backend = TRUE,
                                            !.slept = slept, !.partial = adj.fired,
                                            !.be_size = adj.size, !.buf = be.buf],
                               IF be.ret > 0
                               THEN update_operation_stats(trig.stats, FS_OP_READ, be.ret)
                               ELSE trig.stats,
                               be.fs)

\* The bytes a read of size bytes at buf finds: the buffer, and past its end
\* whatever the memory after it holds
MemoryAt(buf, size) ==
    IF size <= Len(buf) THEN {buf}
    ELSE {buf \o tail : tail \in [1 .. size - Len(buf) -> {0, 255}]}

\* fs_fault_write, the statements on corrupted_buf once malloc returned it:
\* applied is what apply_corruption_fault returns on the copy
corrupted_buf_events_LeakOnDecline(applied) ==
    IF applied THEN <<"malloc", "memcpy", "corrupt", "fs_op_write", "free">>
    ELSE <<"malloc", "memcpy", "corrupt">>

corrupted_buf_events(applied) ==
    IF applied THEN <<"malloc", "memcpy", "corrupt", "fs_op_write", "free">>
    ELSE <<"malloc", "memcpy", "corrupt", "free">>

\* fs_fault_write.  The caller's buffer is const: buf is never written.
\* d holds the rand() draws of the check_probability calls; the result is
\* the set of outcomes over what malloc returns and what rand() returns in
\* the corruption loop.
WriteWrapper(c, st, t, fsys, buf, size, offset, fi, d) ==
    LET base == [NoCall EXCEPT !.op = FS_OP_WRITE, !.size = size, !.offset = offset,
                               !.buf = buf, !.fi = fi]
    IN IF ~c.enable_fault_injection
       THEN LET be == fs_op_write(fsys, buf, size, offset, fi)
            IN {Outcome([base EXCEPT !.ret = be.ret, !.backend = TRUE, !.be_size = size,
                                     !.be_buf = buf], st, be.fs)}
       ELSE LET err == apply_error_fault(c, FS_OP_WRITE, 0 - EIO, d.error)
            IN IF err.fired
               THEN {Outcome([base EXCEPT !.ret = err.error_code, !.short = TRUE,
                                          !.error = TRUE], st, fsys)}
               ELSE IF check_timing_fault(c, st, t, FS_OP_WRITE)
               THEN {Outcome([base EXCEPT !.ret = 0 - EIO, !.short = TRUE,
                                          !.timing = TRUE], st, fsys)}
               ELSE IF check_operation_count_fault(c, st, FS_OP_WRITE)
               THEN {Outcome([base EXCEPT !.ret = 0 - EIO, !.short = TRUE,
                                          !.count = TRUE], st, fsys)}
               ELSE IF fs_op_access(fsys, {W_OK}) # 0
               THEN {Outcome([base EXCEPT !.ret = fs_op_access(fsys, {W_OK}),
                                          !.denied = TRUE], st, fsys)}
               ELSE LET slept == apply_delay_fault(c, FS_OP_WRITE, d.delay)
                        adj == apply_partial_fault(c, FS_OP_WRITE, size, d.partial)
                        actual_size == adj.size
                        wanted == /\ c.corruption_fault.present
                                  /\ config_should_affect_operation(
                                         c.corruption_fault.operations_mask, FS_OP_WRITE)
                                  /\ check_probability(c.corruption_fault.probability,
                                                       d.corrupt1)
                    IN { LET copy == SubSeq(mem, 1, actual_size)
                             cor == IF wanted /\ malloc_ok
                                    THEN apply_corruption_fault(c, FS_OP_WRITE, copy,
                                                                d.corrupt2, strikes)
                                    ELSE [fired |-> FALSE, buffer |-> copy]
                             final_buf == IF cor.fired THEN cor.buffer ELSE mem
                             be == fs_op_write(fsys, final_buf, actual_size, offset, fi)
                         IN Outcome([base EXCEPT !.ret = be.ret, !.backend = TRUE,
                                                 !.slept = slept, !.partial = adj.fired,
                                                 !.corrupt = cor.fired,
                                                 !.alloc_failed = wanted /\ ~malloc_ok,
                                                 !.heap = IF wanted /\ malloc_ok
                                                          THEN corrupted_buf_events(cor.fired)
                                                          ELSE <<>>,
                                                 !.be_size = actual_size,
                                                 !.be_buf = SubSeq(final_buf, 1, actual_size)],
                                    IF be.ret > 0
                                    THEN update_operation_stats(st, FS_OP_WRITE, be.ret)
                                    ELSE st,
                                    be.fs) :
                         mem \in MemoryAt(buf, actual_size),
                         malloc_ok \in IF wanted THEN BOOLEAN ELSE {TRUE},
                         strikes \in StrikeSeqs(IF wanted
                                                THEN CorruptionLoops(c, actual_size)
                                                ELSE 0) }

\* ------------------------------------------------------------- the calls
\* The values rand() can return at a check_probability call on fault f: a
\* draw is made only for a probability strictly between 0 and 1
Draws(f) ==
    IF cfg.enable_fault_injection /\ f.present
       /\ 0 < f.probability /\ f.probability < ProbOne
    THEN 0 .. RandMax
    ELSE {0}

\* The offsets callers read and write at
Offsets == {0, 1}

\* The modes callers create files with
CreateModes == {ModeRW, [r |-> TRUE, w |-> FALSE]}

\* The bytes a caller writes: 1, 2, ..., size
CallerData(size) == [i \in 1 .. size |-> i]

\* A caller's read buffer before the call
CallerBuffer(size) == [i \in 1 .. size |-> Untouched]

\* A file handle is one that open or create returned for /f
Handles == IF fs.exists THEN {"NULL", "fh"} ELSE {"NULL"}

\* The wrapper returns: out is what it did, direct what the backend
\* operation does when called directly on the same store and arguments
Return(out, direct) ==
    /\ stats' = out.stats
    /\ fs' = out.fs
    /\ calls' = calls + 1
    /\ last' = [out.info EXCEPT !.identical = /\ out.info.ret = direct.ret
                                             /\ out.fs = direct.fs
                                             /\ out.info.buf = direct.buf]
    /\ sumWrite' = IF out.info.op = FS_OP_WRITE /\ out.info.ret > 0
                   THEN sumWrite + out.info.ret ELSE sumWrite
    /\ sumRead' = IF out.info.op = FS_OP_READ /\ out.info.ret > 0
                  THEN sumRead + out.info.ret ELSE sumRead
    /\ UNCHANGED <<cfg, now, proc, thr, logger, rng>>

Simple(op, acc, be) ==
    /\ calls < MaxCalls
    /\ \E rE \in Draws(cfg.error_fault), rD \in Draws(cfg.delay_fault) :
          Return(SimpleWrapper(cfg, stats, now, fs, op, rE, rD, acc, be), be)

fs_fault_getattr == Simple(FS_OP_GETATTR, 0, fs_op_getattr(fs))

fs_fault_readdir == Simple(FS_OP_READDIR, 0, fs_op_readdir(fs))

fs_fault_create ==
    \E mode \in CreateModes :
        Simple(FS_OP_CREATE,
               IF fs_op_getattr(fs).ret = 0 THEN fs_op_access(fs, {W_OK}) ELSE 0,
               fs_op_create(fs, mode))

fs_fault_mknod == \E mode \in CreateModes : Simple(FS_OP_MKNOD, 0, fs_op_mknod(fs, mode))

fs_fault_read ==
    /\ calls < MaxCalls
    /\ \E size \in 0 .. MaxSize, offset \in Offsets, fi \in Handles,
          rE \in Draws(cfg.error_fault), rD \in Draws(cfg.delay_fault),
          rP \in Draws(cfg.partial_fault) :
          Return(ReadWrapper(cfg, stats, now, fs, CallerBuffer(size), size, offset, fi,
                             [error |-> rE, delay |-> rD, partial |-> rP]),
                 fs_op_read(fs, CallerBuffer(size), size, offset, fi))

fs_fault_write ==
    /\ calls < MaxCalls
    /\ \E size \in 0 .. MaxSize, offset \in Offsets, fi \in Handles,
          rE \in Draws(cfg.error_fault), rD \in Draws(cfg.delay_fault),
          rP \in Draws(cfg.partial_fault), rC1 \in Draws(cfg.corruption_fault),
          rC2 \in Draws(cfg.corruption_fault) :
          \E out \in WriteWrapper(cfg, stats, now, fs, CallerData(size), size, offset, fi,
                                  [error |-> rE, delay |-> rD, partial |-> rP,
                                   corrupt1 |-> rC1, corrupt2 |-> rC2]) :
              Return(out, fs_op_write(fs, CallerData(size), size, offset, fi))

\* The access mode of fi->flags: O_RDONLY, O_WRONLY or O_RDWR
fs_fault_open ==
    \E flags \in {{R_OK}, {W_OK}, {R_OK, W_OK}} :
        Simple(FS_OP_OPEN, fs_op_access(fs, flags), fs_op_open(fs, flags))

fs_fault_release == Simple(FS_OP_RELEASE, 0, fs_op_release(fs))

fs_fault_mkdir == Simple(FS_OP_MKDIR, 0, fs_op_mkdir(fs))

fs_fault_rmdir == Simple(FS_OP_RMDIR, 0, fs_op_rmdir(fs))

fs_fault_unlink == Simple(FS_OP_UNLINK, 0, fs_op_unlink(fs))

fs_fault_rename == Simple(FS_OP_RENAME, 0, fs_op_rename(fs))

fs_fault_access ==
    \E mode \in {{R_OK}, {W_OK}} :
        Simple(FS_OP_ACCESS, 0, Result(fs_op_access(fs, mode), fs, <<>>))

fs_fault_chmod ==
    \E mode \in Modes :
        Simple(FS_OP_CHMOD, fs_op_access(fs, {W_OK}), fs_op_chmod(fs, mode))

fs_fault_chown == Simple(FS_OP_CHOWN, fs_op_access(fs, {W_OK}), fs_op_chown(fs))

fs_fault_truncate ==
    \E size \in 0 .. MaxSize :
        Simple(FS_OP_TRUNCATE, fs_op_access(fs, {W_OK}), fs_op_truncate(fs, size))

fs_fault_utimens == Simple(FS_OP_UTIMENS, fs_op_access(fs, {W_OK}), fs_op_utimens(fs))

\* time(NULL) advances, half a minute at a step
Tick ==
    /\ now < 30 * MaxTicks
    /\ now' = now + 30
    /\ UNCHANGED <<cfg, stats, fs, calls, sumWrite, sumRead, last, proc, thr, logger, rng>>

Next ==
    \/ fs_fault_getattr
    \/ fs_fault_readdir
    \/ fs_fault_create
    \/ fs_fault_mknod
    \/ fs_fault_read
    \/ fs_fault_write
    \/ fs_fault_open
    \/ fs_fault_release
    \/ fs_fault_mkdir
    \/ fs_fault_rmdir
    \/ fs_fault_unlink
    \/ fs_fault_rename
    \/ fs_fault_access
    \/ fs_fault_chmod
    \/ fs_fault_chown
    \/ fs_fault_truncate
    \/ fs_fault_utimens
    \/ Tick

\* --------------------------------------------------------------- main
\* The files --config can name
NoFile == [exists |-> FALSE, global |-> <<>>, sections |-> <<>>]

FileAt(name) ==
    IF name = "valid.conf"
    THEN [exists |-> TRUE,
          global |-> [enable_fault_injection |-> "true",
                      storage_path |-> "/conf/storage", log_level |-> "1"],
          sections |-> [partial_fault |-> [probability |-> 100, factor |-> 50],
                        timing_fault |-> [after_minutes |-> 1]]]
    ELSE IF name = "invalid.conf"
    THEN [exists |-> TRUE,
          global |-> [enable_fault_injection |-> "1"],
          sections |-> [delay_fault |-> [probability |-> 150],
                        corruption_fault |-> [probability |-> 100, percentage |-> 200],
                        partial_fault |-> [probability |-> 100, factor |-> 150]]]
    ELSE IF name = "defaults.conf"
    THEN [exists |-> TRUE,
          global |-> <<>>,
          sections |-> [error_fault |-> <<>>, corruption_fault |-> <<>>,
                        delay_fault |-> <<>>, timing_fault |-> <<>>,
                        operation_count_fault |-> <<>>, partial_fault |-> <<>>]]
    ELSE NoFile

ConfigFiles == {"NULL", "missing.conf", "valid.conf", "invalid.conf", "defaults.conf"}

\* fuse_opt_parse with fs_fault_opts: --storage=%s and --log=%s store the
\* string, --loglevel=%d stores the number; an option that is not given
\* leaves the zeroed field
fuse_opt_parse(argv) ==
    [storage_path |-> argv.storage,
     log_file |-> argv.log,
     log_level |-> IF argv.loglevel = "NULL" THEN NoOptions.log_level
                   ELSE atoi(argv.loglevel)]

\* main: override config with command line options if specified
override_settings(settings, options) ==
    [storage_path |-> IF options.storage_path # "NULL" THEN options.storage_path
                      ELSE settings.storage_path,
     log_file |-> IF options.log_file # "NULL" THEN options.log_file
                  ELSE settings.log_file,
     log_level |-> IF options.log_level # 0 THEN options.log_level
                   ELSE settings.log_level]

MainFrame == UNCHANGED <<now, fs, calls, sumWrite, sumRead, last, thr, logger, rng>>

\* fuse_opt_parse fails, or -h is given, or the options are accepted
main_parse ==
    /\ proc.pc = "main"
    /\ \E parsed \in {"error", "help", "ok"} :
          proc' = IF parsed = "error" THEN [proc EXCEPT !.pc = "exited", !.ret = 1]
                  ELSE IF parsed = "help" THEN [proc EXCEPT !.pc = "exited", !.ret = 0]
                  ELSE [proc EXCEPT !.pc = "config",
                                    !.options = fuse_opt_parse(proc.argv)]
    /\ UNCHANGED <<cfg, stats>> /\ MainFrame

\* config_init, then config_load_from_file when --config is given: a
\* failed load prints a warning and main goes on
main_config ==
    /\ proc.pc = "config"
    /\ LET load == IF proc.config_file = "NULL" THEN [ok |-> FALSE, config |-> config_init]
                   ELSE config_load_from_file(config_init, FileAt(proc.config_file))
           initial == config_init_settings(proc.env)
       IN /\ cfg' = load.config
          /\ proc' = [proc EXCEPT !.pc = "override", !.loaded = load.ok,
                                   !.settings =
                                       IF proc.config_file = "NULL" THEN initial
                                       ELSE config_load_settings(initial,
                                                                 FileAt(proc.config_file))]
    /\ UNCHANGED stats /\ MainFrame

\* The options given on the command line replace the configured values
main_override ==
    /\ proc.pc = "override"
    /\ proc' = [proc EXCEPT !.pc = "init",
                            !.settings = override_settings(proc.settings, proc.options)]
    /\ UNCHANGED <<cfg, stats>> /\ MainFrame

\* log_init, fs_ops_init, fault_injector_init, and fuse_main starts serving
main_init ==
    /\ proc.pc = "init"
    /\ logger' = log_init(logger, proc.settings.log_file, proc.settings.log_level)
    /\ rng' = srand_once(rng)
    /\ stats' = fault_injector_init(now)
    /\ proc' = [proc EXCEPT !.pc = "fuse_main"]
    /\ UNCHANGED <<cfg, now, fs, calls, sumWrite, sumRead, last, thr>>

\* main from its first statement on: requests are served inside fuse_main
NextMain ==
    \/ main_parse
    \/ main_config
    \/ main_override
    \/ main_init
    \/ (proc.pc = "fuse_main" /\ Next)

\* main up to the call of fuse_main
NextStartup ==
    \/ main_parse
    \/ main_config
    \/ main_override
    \/ main_init

\* ---------------------------------------------------------- the threads
\* fuse_main serves requests on several threads.  The statements of
\* should_trigger_fault and update_operation_stats on the counters, one
\* load or store of the unprotected static stats at a step; the plan holds
\* no timing or count fault, so both checks return false.
Goto(t, pc) == thr' = [thr EXCEPT ![t].pc = pc]

ThreadFrame == UNCHANGED <<cfg, now, fs, sumWrite, sumRead, last, proc, logger, rng>>

\* A request arrives: fs_fault_write does not call should_trigger_fault
t_enter(t) ==
    /\ thr[t].pc = "idle"
    /\ calls < MaxCalls
    /\ cfg.enable_fault_injection
    /\ calls' = calls + 1
    /\ \E op \in {FS_OP_GETATTR, FS_OP_READ, FS_OP_WRITE} :
          thr' = [thr EXCEPT ![t].op = op,
                             ![t].pc = IF op = FS_OP_WRITE THEN "bytes_load"
                                       ELSE "old_count"]
    /\ UNCHANGED stats /\ ThreadFrame

\* int old_count = stats.operation_count;
t_old_count(t) ==
    /\ thr[t].pc = "old_count"
    /\ thr' = [thr EXCEPT ![t].old_count = stats.operation_count, ![t].pc = "count_load"]
    /\ UNCHANGED <<stats, calls>> /\ ThreadFrame

\* stats.operation_count++;
t_count_load(t) ==
    /\ thr[t].pc = "count_load"
    /\ thr' = [thr EXCEPT ![t].tmp = stats.operation_count, ![t].pc = "count_store"]
    /\ UNCHANGED <<stats, calls>> /\ ThreadFrame

t_count_store(t) ==
    /\ thr[t].pc = "count_store"
    /\ stats' = [stats EXCEPT !.operation_count = thr[t].tmp + 1]
    /\ Goto(t, "op_load")
    /\ UNCHANGED calls /\ ThreadFrame

\* stats.op_counts[operation]++;
t_op_load(t) ==
    /\ thr[t].pc = "op_load"
    /\ thr' = [thr EXCEPT ![t].tmp = stats.op_counts[thr[t].op], ![t].pc = "op_store"]
    /\ UNCHANGED <<stats, calls>> /\ ThreadFrame

t_op_store(t) ==
    /\ thr[t].pc = "op_store"
    /\ stats' = [stats EXCEPT !.op_counts[thr[t].op] = thr[t].tmp + 1]
    /\ Goto(t, "new_count")
    /\ UNCHANGED calls /\ ThreadFrame

\* int new_count = stats.operation_count;
t_new_count(t) ==
    /\ thr[t].pc = "new_count"
    /\ thr' = [thr EXCEPT ![t].new_count = stats.operation_count, ![t].pc = "restore_old"]
    /\ UNCHANGED <<stats, calls>> /\ ThreadFrame

\* stats.operation_count = old_count;
t_restore_old(t) ==
    /\ thr[t].pc = "restore_old"
    /\ stats' = [stats EXCEPT !.operation_count = thr[t].old_count]
    /\ Goto(t, "restore_new")
    /\ UNCHANGED calls /\ ThreadFrame

\* stats.operation_count = new_count; and, for a read, the backend call
t_restore_new(t) ==
    /\ thr[t].pc = "restore_new"
    /\ stats' = [stats EXCEPT !.operation_count = thr[t].new_count]
    /\ thr' = [thr EXCEPT ![t] = IF thr[t].op = FS_OP_READ
                                 THEN [@ EXCEPT !.pc = "bytes_load"] ELSE Idle]
    /\ UNCHANGED calls /\ ThreadFrame

\* stats.bytes_read += bytes; or stats.bytes_written += bytes;
t_bytes_load(t) ==
    /\ thr[t].pc = "bytes_load"
    /\ thr' = [thr EXCEPT ![t].tmp = IF thr[t].op = FS_OP_READ THEN stats.bytes_read
                                     ELSE stats.bytes_written,
                          ![t].pc = "bytes_store"]
    /\ UNCHANGED <<stats, calls>> /\ ThreadFrame

\* sumRead and sumWrite add up the results the calls return
t_bytes_store(t) ==
    /\ thr[t].pc = "bytes_store"
    /\ \E bytes \in 1 .. MaxSize :
          /\ stats' = IF thr[t].op = FS_OP_READ
                      THEN [stats EXCEPT !.bytes_read = thr[t].tmp + bytes]
                      ELSE [stats EXCEPT !.bytes_written = thr[t].tmp + bytes]
          /\ sumRead' = IF thr[t].op = FS_OP_READ THEN sumRead + bytes ELSE sumRead
          /\ sumWrite' = IF thr[t].op = FS_OP_WRITE THEN sumWrite + bytes ELSE sumWrite
    /\ thr' = [thr EXCEPT ![t] = Idle]
    /\ UNCHANGED <<calls, cfg, now, fs, last, proc, logger, rng>>

NextThreads ==
    \/ \E t \in Threads : t_enter(t)
    \/ \E t \in Threads : t_old_count(t)
    \/ \E t \in Threads : t_count_load(t)
    \/ \E t \in Threads : t_count_store(t)
    \/ \E t \in Threads : t_op_load(t)
    \/ \E t \in Threads : t_op_store(t)
    \/ \E t \in Threads : t_new_count(t)
    \/ \E t \in Threads : t_restore_old(t)
    \/ \E t \in Threads : t_restore_new(t)
    \/ \E t \in Threads : t_bytes_load(t)
    \/ \E t \in Threads : t_bytes_store(t)

\* ------------------------------------------------- the threads in the logger
\* Threads serve requests on which the delay fault fires or not, and call
\* log_close and log_init.  A step is one access to the statics of log.c
\* outside log_mutex, or one stretch of statements inside it.  level is the
\* level of the message a thread is logging (of the new level, in
\* log_init), next where it goes on after log_message; since holds the
\* threads that were asleep when the request arrived and overtaken tells a
\* sleeper that such a request has returned.
LogIdle == [pc |-> "idle", level |-> LOG_ERROR, next |-> "idle", since |-> {},
            overtaken |-> FALSE]

LogFrame == UNCHANGED <<cfg, stats, now, fs, sumWrite, sumRead, proc, rng>>

\* A request arrives; apply_delay_fault fires and logs at LOG_INFO before it
\* sleeps, or does not fire and the wrapper goes on to the backend
lg_request(t) ==
    /\ thr[t].pc = "idle"
    /\ calls < MaxCalls
    /\ calls' = calls + 1
    /\ \E fires \in BOOLEAN :
          thr' = [thr EXCEPT ![t] = [LogIdle EXCEPT
                                       !.pc = IF fires THEN "log_check" ELSE "backend",
                                       !.level = LOG_INFO,
                                       !.next = "usleep",
                                       !.since = {s \in Threads : thr[s].pc = "usleep"}]]
    /\ UNCHANGED <<logger, last>> /\ LogFrame

\* log_message: if (level > current_log_level || log_file_handle == NULL)
\* return;  read without the mutex
lg_check(t) ==
    /\ thr[t].pc = "log_check"
    /\ thr' = [thr EXCEPT ![t].pc = IF \/ thr[t].level > logger.level
                                       \/ logger.handle = "NULL"
                                    THEN thr[t].next ELSE "log_lock"]
    /\ UNCHANGED <<logger, last, calls>> /\ LogFrame

\* log_message: pthread_mutex_lock(&log_mutex)
lg_lock(t) ==
    /\ thr[t].pc = "log_lock"
    /\ logger.mutex = 0
    /\ logger' = [logger EXCEPT !.mutex = t]
    /\ thr' = [thr EXCEPT ![t].pc = "log_write"]
    /\ UNCHANGED <<last, calls>> /\ LogFrame

\* log_message: fprintf, vfprintf and fflush on log_file_handle, then
\* unlock; last is the write: the handle written to and the level in force
lg_write(t) ==
    /\ thr[t].pc = "log_write"
    /\ last' = [thread |-> t, level |-> thr[t].level,
                handle |-> logger.handle, open |-> logger.open,
                current |-> logger.level]
    /\ logger' = pthread_mutex_unlock(logger)
    /\ thr' = [thr EXCEPT ![t].pc = thr[t].next]
    /\ UNCHANGED calls /\ LogFrame

\* apply_delay_fault: usleep(delay_ms * 1000) ends
lg_usleep(t) ==
    /\ thr[t].pc = "usleep"
    /\ thr' = [thr EXCEPT ![t].pc = "backend"]
    /\ UNCHANGED <<logger, last, calls>> /\ LogFrame

\* The backend call, then LOG_DEBUG("<<< EXIT ...")
lg_backend(t) ==
    /\ thr[t].pc = "backend"
    /\ thr' = [thr EXCEPT ![t].pc = "log_check", ![t].level = LOG_DEBUG,
                          ![t].next = "done"]
    /\ UNCHANGED <<logger, last, calls>> /\ LogFrame

\* The wrapper returns
lg_done(t) ==
    /\ thr[t].pc = "done"
    /\ thr' = [s \in Threads |->
                 IF s = t THEN LogIdle
                 ELSE IF s \in thr[t].since /\ thr[s].pc = "usleep"
                 THEN [thr[s] EXCEPT !.overtaken = TRUE]
                 ELSE thr[s]]
    /\ UNCHANGED <<logger, last, calls>> /\ LogFrame

\* log_close: pthread_mutex_lock(&log_mutex)
lg_close_lock(t) ==
    /\ thr[t].pc = "idle"
    /\ calls < MaxCalls
    /\ logger.mutex = 0
    /\ calls' = calls + 1
    /\ logger' = [logger EXCEPT !.mutex = t]
    /\ thr' = [thr EXCEPT ![t] = [LogIdle EXCEPT !.pc = "close_body"]]
    /\ UNCHANGED last /\ LogFrame

\* log_close: fclose, log_file_handle = NULL, unlock
lg_close_body(t) ==
    /\ thr[t].pc = "close_body"
    /\ logger' = pthread_mutex_unlock(log_close(logger))
    /\ thr' = [thr EXCEPT ![t] = LogIdle]
    /\ UNCHANGED <<last, calls>> /\ LogFrame

\* log_init(log_file, level): pthread_mutex_lock(&log_mutex)
lg_init_lock(t) ==
    /\ thr[t].pc = "idle"
    /\ calls < MaxCalls
    /\ logger.mutex = 0
    /\ calls' = calls + 1
    /\ logger' = [logger EXCEPT !.mutex = t]
    /\ \E level \in {LOG_ERROR, LOG_DEBUG} :
          thr' = [thr EXCEPT ![t] = [LogIdle EXCEPT !.pc = "init_level", !.level = level]]
    /\ UNCHANGED last /\ LogFrame

\* log_init: current_log_level = level; and fclose of the previous file
lg_init_level(t) ==
    /\ thr[t].pc = "init_level"
    /\ logger' = [logger EXCEPT !.level = thr[t].level,
                                !.open = IF logger.handle = "file" THEN FALSE ELSE @]
    /\ thr' = [thr EXCEPT ![t].pc = "init_open"]
    /\ UNCHANGED <<last, calls>> /\ LogFrame

\* log_init: fopen, the first line, unlock
lg_init_open(t) ==
    /\ thr[t].pc = "init_open"
    /\ logger' = pthread_mutex_unlock(log_init(logger, Defaults.log_file, thr[t].level))
    /\ thr' = [thr EXCEPT ![t] = LogIdle]
    /\ UNCHANGED <<last, calls>> /\ LogFrame

NextLog ==
    \/ \E t \in Threads : lg_request(t)
    \/ \E t \in Threads : lg_check(t)
    \/ \E t \in Threads : lg_lock(t)
    \/ \E t \in Threads : lg_write(t)
    \/ \E t \in Threads : lg_usleep(t)
    \/ \E t \in Threads : lg_backend(t)
    \/ \E t \in Threads : lg_done(t)
    \/ \E t \in Threads : lg_close_lock(t)
    \/ \E t \in Threads : lg_close_body(t)
    \/ \E t \in Threads : lg_init_lock(t)
    \/ \E t \in Threads : lg_init_level(t)
    \/ \E t \in Threads : lg_init_open(t)

\* ------------------------------------------------------------ the plans
ErrorFault(p, code, mask) ==
    [present |-> TRUE, probability |-> p, error_code |-> code, operations_mask |-> mask]
CorruptionFault(p, pct, mask) ==
    [present |-> TRUE, probability |-> p, percentage |-> pct, silent |-> TRUE,
     operations_mask |-> mask]
DelayFault(p, mask) ==
    [present |-> TRUE, probability |-> p, delay_ms |-> 500, operations_mask |-> mask]
TimingFault(en, minutes, mask) ==
    [present |-> TRUE, enabled |-> en, after_minutes |-> minutes, operations_mask |-> mask]
CountFault(en, n, bytes, mask) ==
    [present |-> TRUE, enabled |-> en, every_n_operations |-> n, after_bytes |-> bytes,
     operations_mask |-> mask]
PartialFault(p, factor, mask) ==
    [present |-> TRUE, probability |-> p, factor |-> factor, operations_mask |-> mask]

\* The backing stores a run can start on
InitStores ==
    { [exists |-> FALSE, r |-> FALSE, w |-> FALSE, data |-> <<>>, dir |-> FALSE, full |-> FALSE],
      [exists |-> TRUE, r |-> TRUE, w |-> TRUE, data |-> CallerData(MaxSize), dir |-> FALSE, full |-> FALSE],
      [exists |-> TRUE, r |-> TRUE, w |-> FALSE, data |-> CallerData(MaxSize), dir |-> TRUE, full |-> FALSE] }

\* The state when the file system starts serving, under a plan of Plans on
\* a backing store of Stores
InitOn(Plans, Stores) ==
    /\ cfg \in Plans
    /\ stats = fault_injector_init(0)
    /\ now = 0
    /\ fs \in Stores
    /\ calls = 0
    /\ sumWrite = 0
    /\ sumRead = 0
    /\ last = NoCall
    /\ proc = Serving
    /\ thr = [t \in Threads |-> Idle]
    /\ logger = log_init(NoLogger, Defaults.log_file, Defaults.log_level)
    /\ rng = srand_once(Unseeded)

InitWith(Plans) == InitOn(Plans, InitStores)

\* All six faults configured and certain to fire, on the operations of mask
AllFaults(mask) ==
    [enable_fault_injection |-> TRUE,
     error_fault |-> ErrorFault(ProbOne, 0 - ENOSPC, mask),
     corruption_fault |-> CorruptionFault(ProbOne, ProbOne, mask),
     delay_fault |-> DelayFault(ProbOne, mask),
     timing_fault |-> TimingFault(TRUE, 1, mask),
     operation_count_fault |-> CountFault(TRUE, 1, 1, mask),
     partial_fault |-> PartialFault(ProbOne, 50, mask)]

\* Fault injection off, with no fault section or with every section loaded
PlansDisabled ==
    { config_init, [AllFaults(MASK_ALL) EXCEPT !.enable_fault_injection = FALSE] }

Enabled == [config_init EXCEPT !.enable_fault_injection = TRUE]

\* Only the operation count fault, every Nth operation, on all operations
PlansCount ==
    { [Enabled EXCEPT !.operation_count_fault = CountFault(TRUE, n, 0, MASK_ALL)] :
        n \in {2, 3} }

\* A certain error fault together with a count or a timing fault
PlansPrecedence ==
    { [Enabled EXCEPT !.error_fault = ErrorFault(ProbOne, 0 - ENOSPC, MASK_ALL),
                      !.operation_count_fault = CountFault(TRUE, 2, 0, MASK_ALL)],
      [Enabled EXCEPT !.error_fault = ErrorFault(ProbOne, 0 - ENOSPC, MASK_ALL),
                      !.timing_fault = TimingFault(TRUE, 1, MASK_ALL)] }

\* The four probabilistic faults on all operations, with the probabilities
\* 0, 1/2 and 1
ProbPlan(pe, pd, pp, pc) ==
    [Enabled EXCEPT !.error_fault = ErrorFault(pe, 0 - ENOSPC, MASK_ALL),
                    !.delay_fault = DelayFault(pd, MASK_ALL),
                    !.partial_fault = PartialFault(pp, 50, MASK_ALL),
                    !.corruption_fault = CorruptionFault(pc, 50, MASK_ALL)]

\* Probability 0 alone, and probability 0 for the error fault beside
\* certain delay, partial and corruption faults
PlansProbZero ==
    { ProbPlan(0, 0, 0, 0), ProbPlan(0, ProbOne, ProbOne, ProbOne) }

\* An error fault that fires sometimes or always, beside certain faults
PlansErrorFirst ==
    { ProbPlan(50, ProbOne, ProbOne, 0), ProbPlan(ProbOne, ProbOne, ProbOne, ProbOne) }

\* All six faults, certain to fire, restricted to a few operations
PlansMask ==
    { AllFaults({FS_OP_READ}), AllFaults({FS_OP_WRITE}),
      AllFaults({FS_OP_GETATTR, FS_OP_CHMOD}) }

\* The timing fault with and without an error fault beside it
PlansTiming ==
    { [Enabled EXCEPT !.timing_fault = TimingFault(TRUE, 1, MASK_ALL)],
      [Enabled EXCEPT !.timing_fault = TimingFault(TRUE, 1, {FS_OP_WRITE, FS_OP_GETATTR})],
      [Enabled EXCEPT !.timing_fault = TimingFault(TRUE, 1, MASK_ALL),
                      !.error_fault = ErrorFault(ProbOne, 0 - ENOSPC, MASK_ALL)],
      [Enabled EXCEPT !.timing_fault = TimingFault(TRUE, 0, MASK_ALL)] }

\* Only the partial fault, certain to fire: half of each write, no bytes
\* of any transfer, and one and a half times each transfer
PlansPartial ==
    { [Enabled EXCEPT !.partial_fault = PartialFault(ProbOne, 50, {FS_OP_WRITE})],
      [Enabled EXCEPT !.partial_fault = PartialFault(ProbOne, 0, MASK_ALL)],
      [Enabled EXCEPT !.partial_fault = PartialFault(ProbOne, 150, MASK_ALL)] }

\* A file just created, and a file that holds data
StoresFresh ==
    { [exists |-> TRUE, r |-> TRUE, w |-> TRUE, data |-> <<>>, dir |-> FALSE, full |-> FALSE],
      [exists |-> TRUE, r |-> TRUE, w |-> TRUE, data |-> CallerData(MaxSize), dir |-> FALSE, full |-> FALSE] }

\* Faults that fail calls before the backend: a certain error fault on
\* reads, a count fault, and a timing fault beside a certain error fault
PlansShortCircuit ==
    { [Enabled EXCEPT !.error_fault = ErrorFault(ProbOne, 0 - EIO, {FS_OP_READ})],
      [Enabled EXCEPT !.operation_count_fault = CountFault(TRUE, 2, 0, MASK_ALL)],
      [Enabled EXCEPT !.timing_fault = TimingFault(TRUE, 1, MASK_ALL),
                      !.error_fault = ErrorFault(ProbOne, 0 - ENOSPC, MASK_ALL)] }

\* Only the corruption fault, certain to fire on writes, on half of the
\* bytes
PlansCorruption ==
    { [Enabled EXCEPT !.corruption_fault = CorruptionFault(ProbOne, 50, {FS_OP_WRITE})] }

\* A certain delay fault, alone and beside certain partial and corruption
\* faults
PlansDelay ==
    { [Enabled EXCEPT !.delay_fault = DelayFault(ProbOne, MASK_ALL)],
      ProbPlan(0, ProbOne, ProbOne, ProbOne) }

Plans == PlansDisabled \cup PlansCount \cup PlansPrecedence \cup PlansProbZero
         \cup PlansErrorFirst
         \cup PlansMask \cup PlansTiming

Init == InitWith(Plans)
Spec == Init /\ [][Next]_vars

InitDisabled == InitWith(PlansDisabled)
SpecDisabled == InitDisabled /\ [][Next]_vars

InitProbZero == InitWith(PlansProbZero)
SpecProbZero == InitProbZero /\ [][Next]_vars

InitErrorFirst == InitWith(PlansErrorFirst)
SpecErrorFirst == InitErrorFirst /\ [][Next]_vars

InitMask == InitWith(PlansMask)
SpecMask == InitMask /\ [][Next]_vars

InitTiming == InitWith(PlansTiming)
SpecTiming == InitTiming /\ [][Next]_vars

InitPartial == InitOn(PlansPartial, StoresFresh)
SpecPartial == InitPartial /\ [][Next]_vars

InitShortCircuit == InitWith(PlansShortCircuit)
SpecShortCircuit == InitShortCircuit /\ [][Next]_vars

InitCorruption == InitOn(PlansCorruption, StoresFresh)
\* The calls that move file data: the file is created, written, read back
\* and cut
NextData ==
    \/ fs_fault_create
    \/ fs_fault_read
    \/ fs_fault_write
    \/ fs_fault_truncate
SpecCorruption == InitCorruption /\ [][NextData]_vars

InitDelay == InitWith(PlansDelay)
SpecDelay == InitDelay /\ [][Next]_vars

InitThreads == InitOn({Enabled}, StoresFresh)
SpecThreads == InitThreads /\ [][NextThreads]_vars

\* The timing fault on every operation and on two of them, alone
PlansClock ==
    { [Enabled EXCEPT !.timing_fault = TimingFault(TRUE, 1, MASK_ALL)],
      [Enabled EXCEPT !.timing_fault = TimingFault(TRUE, 1, {FS_OP_WRITE, FS_OP_GETATTR})] }

\* The calls that move file data, getattr, and the passing of time
NextClock ==
    \/ NextData
    \/ fs_fault_getattr
    \/ Tick

InitClock == InitOn(PlansClock, StoresFresh)
SpecClock == InitClock /\ [][NextClock]_vars

\* A file that holds data, on a device with space and on a full device
StoresFull ==
    { [exists |-> TRUE, r |-> TRUE, w |-> TRUE, data |-> CallerData(MaxSize), dir |-> FALSE,
       full |-> f] : f \in BOOLEAN }

\* The corruption fault and the partial fault on writes, both certain to
\* fire: apply_corruption_fault declines the copy of a write of no bytes
PlansScoped ==
    { [Enabled EXCEPT !.corruption_fault = CorruptionFault(ProbOne, 50, {FS_OP_WRITE}),
                      !.partial_fault = PartialFault(ProbOne, 50, {FS_OP_WRITE})] }

InitScoped == InitOn(PlansScoped, StoresFull)
SpecScoped == InitScoped /\ [][NextData]_vars

\* The corruption fault on writes, firing on half of the draws
PlansTrigger ==
    { [Enabled EXCEPT !.corruption_fault = CorruptionFault(50, 50, {FS_OP_WRITE})] }

InitTrigger == InitOn(PlansTrigger, StoresFresh)
SpecTrigger == InitTrigger /\ [][NextData]_vars

\* Only the operation count fault, on a byte threshold: after MaxSize bytes
\* on all operations, and after one byte on reads and getattr
PlansBytes ==
    { [Enabled EXCEPT !.operation_count_fault = CountFault(TRUE, 0, MaxSize, MASK_ALL)],
      [Enabled EXCEPT !.operation_count_fault =
                          CountFault(TRUE, 0, 1, {FS_OP_READ, FS_OP_GETATTR})] }

InitBytes == InitOn(PlansBytes, StoresFresh)
SpecBytes == InitBytes /\ [][Next]_vars

\* Fault injection off, with every fault loaded: probabilities of one half,
\* and probabilities of one beside a timing and a count fault
PlansFrozen ==
    { [ProbPlan(50, 50, 50, 50) EXCEPT !.enable_fault_injection = FALSE],
      [AllFaults(MASK_ALL) EXCEPT !.enable_fault_injection = FALSE] }

InitFrozen == InitOn(PlansFrozen, StoresFresh)
SpecFrozen == InitFrozen /\ [][Next]_vars

\* The corruption routine alone: certain to fire on writes, on no byte, on
\* one byte in a hundred, on a third, a half, nearly all and all of them
Percentages == {0, 1, 34, 50, 99, 100}
PlansStrikes ==
    { [Enabled EXCEPT !.corruption_fault = CorruptionFault(ProbOne, pct, {FS_OP_WRITE})] :
        pct \in Percentages }

\* apply_corruption_fault is called once on a buffer of size bytes, with
\* the rand() pairs its loop draws
CorruptBuffer ==
    /\ calls = 0
    /\ \E size \in 0 .. MaxLen :
          \E strikes \in StrikeSeqs(CorruptionLoops(cfg, size)) :
             LET buffer == CallerData(size)
                 res == apply_corruption_fault(cfg, FS_OP_WRITE, buffer, 0, strikes)
             IN last' = [op |-> FS_OP_WRITE, size |-> size, buf |-> buffer,
                         corrupt |-> res.fired, be_buf |-> res.buffer,
                         strikes |-> strikes,
                         positions |-> IF size = 0 THEN <<>>
                                       ELSE StrikePositions(strikes, size)]
    /\ calls' = calls + 1
    /\ UNCHANGED <<cfg, stats, now, fs, sumWrite, sumRead, proc, thr, logger, rng>>

NextStrikes == CorruptBuffer
InitStrikes == InitOn(PlansStrikes, {CHOOSE st \in StoresFresh : st.data = <<>>})
SpecStrikes == InitStrikes /\ [][NextStrikes]_vars

\* The delay fault certain on every operation; the log is open at level
\* INFO or DEBUG and no thread is inside the logger
InitLog ==
    /\ cfg = [Enabled EXCEPT !.delay_fault = DelayFault(ProbOne, MASK_ALL)]
    /\ stats = fault_injector_init(0)
    /\ now = 0
    /\ fs \in {CHOOSE st \in StoresFresh : st.data = <<>>}
    /\ calls = 0
    /\ sumWrite = 0
    /\ sumRead = 0
    /\ last = NoCall
    /\ proc = Serving
    /\ thr = [t \in Threads |-> LogIdle]
    /\ logger \in {log_init(NoLogger, Defaults.log_file, level) : level \in {LOG_INFO, LOG_DEBUG}}
    /\ rng = srand_once(Unseeded)
SpecLog == InitLog /\ [][NextLog]_vars

\* The process before main has called anything: the generator is not
\* seeded and the ledger is zeroed static storage
InitSeed ==
    /\ cfg = Enabled
    /\ stats = fault_injector_init(0)
    /\ now = 0
    /\ fs \in {CHOOSE st \in StoresFresh : st.data = <<>>}
    /\ calls = 0
    /\ sumWrite = 0
    /\ sumRead = 0
    /\ last = NoCall
    /\ proc = [Serving EXCEPT !.pc = "init"]
    /\ thr = [t \in Threads |-> Idle]
    /\ logger = log_init(NoLogger, Defaults.log_file, Defaults.log_level)
    /\ rng = Unseeded

SeedFrame == UNCHANGED <<cfg, now, fs, sumWrite, sumRead, proc, thr, logger>>

\* The probabilities check_probability is called with
Probabilities == {0, 50, ProbOne}

\* fault_injector_init is called; last tells what the call found
call_fault_injector_init ==
    /\ calls < MaxCalls + 1
    /\ calls' = calls + 1
    /\ rng' = srand_once(rng)
    /\ stats' = fault_injector_init(now)
    /\ last' = [call |-> "fault_injector_init", seeded_before |-> rng.seeded,
                count_before |-> stats.operation_count, drew |-> FALSE, ret |-> FALSE]
    /\ SeedFrame

\* check_probability is called: it seeds the generator if nobody has, and
\* draws when the probability is strictly between 0 and 1
call_check_probability ==
    /\ calls < MaxCalls + 1
    /\ calls' = calls + 1
    /\ rng' = srand_once(rng)
    /\ \E probability \in Probabilities :
          \E r \in IF 0 < probability /\ probability < ProbOne THEN 0 .. RandMax ELSE {0} :
             last' = [call |-> "check_probability", seeded_before |-> rng.seeded,
                      count_before |-> stats.operation_count,
                      drew |-> 0 < probability /\ probability < ProbOne,
                      ret |-> check_probability(probability, r)]
    /\ UNCHANGED stats /\ SeedFrame

\* should_trigger_fault counts a getattr
call_should_trigger_fault ==
    /\ calls < MaxCalls + 1
    /\ calls' = calls + 1
    /\ stats' = should_trigger_fault(cfg, stats, now, FS_OP_GETATTR).stats
    /\ last' = [call |-> "should_trigger_fault", seeded_before |-> rng.seeded,
                count_before |-> stats.operation_count, drew |-> FALSE, ret |-> FALSE]
    /\ UNCHANGED rng /\ SeedFrame

NextSeed ==
    \/ call_fault_injector_init
    \/ call_check_probability
    \/ call_should_trigger_fault
    \/ Tick
SpecSeed == InitSeed /\ [][NextSeed]_vars

\* The items of an operations list: three defined names, a name that is not
\* defined, the two literals, and nothing at all between two commas; each
\* with or without a blank before and after it
Words == {"read", "write", "getattr", "bogus", "all", "*", ""}
Items == [word : Words, lead : BOOLEAN, trail : BOOLEAN]

\* The text of one item, and of a list of items separated by commas
ItemText(it) ==
    (IF it.lead THEN <<" ">> ELSE <<>>)
    \o (IF it.word = "" THEN <<>> ELSE <<it.word>>)
    \o (IF it.trail THEN <<" ">> ELSE <<>>)
RECURSIVE ListText(_)
ListText(items) ==
    IF items = <<>> THEN <<>>
    ELSE IF Len(items) = 1 THEN ItemText(items[1])
    ELSE ItemText(items[1]) \o <<",">> \o ListText(Tail(items))

\* A list of up to MaxNames items is written as the value of an operations
\* key and parsed; last holds the text, the words written and the mask
ParseMask ==
    /\ calls = 0
    /\ calls' = calls + 1
    /\ \E n \in 0 .. MaxNames :
          \E items \in [1 .. n -> Items] :
             last' = [text |-> ListText(items),
                      words |-> {items[i].word : i \in 1 .. n},
                      mask |-> config_parse_operations_mask(ListText(items))]
    /\ UNCHANGED <<cfg, stats, now, fs, sumWrite, sumRead, proc, thr, logger, rng>>

NextParse == ParseMask
InitParse == InitOn({Enabled}, {CHOOSE st \in StoresFresh : st.data = <<>>})
SpecParse == InitParse /\ [][NextParse]_vars

\* The process is started, with or without --config
InitMain ==
    /\ cfg = config_init
    /\ stats = fault_injector_init(0)
    /\ now = 0
    /\ fs \in StoresFresh
    /\ calls = 0
    /\ sumWrite = 0
    /\ sumRead = 0
    /\ last = NoCall
    /\ proc \in {[pc |-> "main", config_file |-> f, loaded |-> FALSE, ret |-> 0,
                   argv |-> NoArgs, env |-> NoEnv, options |-> NoOptions,
                   settings |-> NoSettings] :
                  f \in ConfigFiles}
    /\ thr = [t \in Threads |-> Idle]
    /\ logger = NoLogger
    /\ rng = Unseeded

SpecMain == InitMain /\ [][NextMain]_vars

\* The command lines and environments the process is started with
CommandLines ==
    [storage : {"NULL", "/cli/storage"}, log : {"NULL", "/cli/log"},
     loglevel : {"NULL", "0", "3"}]
Environments ==
    [NAS_STORAGE_PATH : {"NULL", "/env/storage"}, NAS_LOG_FILE : {"NULL", "/env/log"},
     NAS_LOG_LEVEL : {"NULL", "1"}]

\* The process is started with any of the command lines, environments and
\* configuration files
InitStartup ==
    /\ cfg = config_init
    /\ stats = fault_injector_init(0)
    /\ now = 0
    /\ fs \in StoresFresh
    /\ calls = 0
    /\ sumWrite = 0
    /\ sumRead = 0
    /\ last = NoCall
    /\ proc \in {[pc |-> "main", config_file |-> f, loaded |-> FALSE, ret |-> 0,
                   argv |-> a, env |-> e, options |-> NoOptions,
                   settings |-> NoSettings] :
                  f \in ConfigFiles, a \in CommandLines, e \in Environments}
    /\ thr = [t \in Threads |-> Idle]
    /\ logger = NoLogger
    /\ rng = Unseeded

SpecStartup == InitStartup /\ [][NextStartup]_vars

\* ------------------------------------------------------------ properties
\* The operation's bit is set in the mask
InMask(mask, op) == op \in mask

\* Fault f is configured with probability 1 and a mask that includes op
Certain(f, op) == f.present /\ f.probability >= ProbOne /\ InMask(f.operations_mask, op)

\* C1: with enable_fault_injection = false every wrapper call returns the
\* code the backend operation returns on the same arguments, and leaves the
\* backing store and the caller's buffer as the backend operation leaves them.
C1_DisabledIsIdentity ==
    (~cfg.enable_fault_injection /\ calls > 0) => last.identical

C1_Witness ==
    /\ ~cfg.enable_fault_injection
    /\ cfg.error_fault.present
    /\ sumWrite > 0
    /\ last.op = FS_OP_READ
    /\ last.ret > 0

\* Only the count fault is configured: every N operations, no byte
\* threshold, all operations
CountOnly ==
    /\ cfg.enable_fault_injection
    /\ cfg.operation_count_fault.present
    /\ cfg.operation_count_fault.enabled
    /\ cfg.operation_count_fault.every_n_operations > 0
    /\ cfg.operation_count_fault.after_bytes = 0
    /\ cfg.operation_count_fault.operations_mask = MASK_ALL
    /\ ~cfg.error_fault.present /\ ~cfg.corruption_fault.present
    /\ ~cfg.delay_fault.present /\ ~cfg.timing_fault.present
    /\ ~cfg.partial_fault.present

\* C2: under a count-only plan with every_n_operations = N, the calls that
\* return -EIO are exactly those whose 1-based index is a multiple of N.
C2_CountPeriodicity ==
    (CountOnly /\ calls > 0) =>
        ((last.ret = 0 - EIO)
            <=> (calls % cfg.operation_count_fault.every_n_operations = 0))

\* C3: a call on which the error fault is certain to fire and which a timing
\* or count fault also fails returns the error fault's error_code; a call
\* failed by a timing or count fault alone returns -EIO.
C3_ErrorPrecedence ==
    (cfg.enable_fault_injection /\ calls > 0 /\ last.short) =>
        /\ Certain(cfg.error_fault, last.op) => last.ret = cfg.error_fault.error_code
        /\ (~last.error /\ ~Certain(cfg.error_fault, last.op)) => last.ret = 0 - EIO

\* C4: on a call on which the error fault fires nothing else happens: no
\* sleep, no size reduction, no corruption, no backend call, and the call
\* returns the configured error code.
C4_ErrorDominates ==
    (calls > 0 /\ last.error) =>
        /\ ~last.slept
        /\ ~last.partial
        /\ ~last.corrupt
        /\ ~last.backend
        /\ last.ret = cfg.error_fault.error_code

C4_Witness ==
    /\ last.error
    /\ last.op = FS_OP_WRITE
    /\ last.size > 0
    /\ Certain(cfg.delay_fault, FS_OP_WRITE)
    /\ Certain(cfg.partial_fault, FS_OP_WRITE)
    /\ Certain(cfg.corruption_fault, FS_OP_WRITE)

\* C5: a READ that the backend answers with n > 0 bytes, under a corruption
\* fault with READ in its mask, probability 1 and percentage > 0, has its
\* buffer corrupted before it returns.
C5_ReadCorruption ==
    (/\ calls > 0
     /\ cfg.enable_fault_injection
     /\ last.op = FS_OP_READ
     /\ last.backend
     /\ last.ret > 0
     /\ Certain(cfg.corruption_fault, FS_OP_READ)
     /\ cfg.corruption_fault.percentage > 0) => last.corrupt

\* C6: a probabilistic fault configured with probability 0 never fires: the
\* error fault never fails a call nor returns its code, the delay fault never
\* sleeps, the partial fault never changes the size, the corruption fault
\* never changes a byte handed to the backend.
C6_ProbabilityZero ==
    calls > 0 =>
        /\ (cfg.error_fault.present /\ cfg.error_fault.probability = 0) =>
               (~last.error /\ last.ret # cfg.error_fault.error_code)
        /\ (cfg.delay_fault.present /\ cfg.delay_fault.probability = 0) => ~last.slept
        /\ (cfg.partial_fault.present /\ cfg.partial_fault.probability = 0) =>
               (~last.partial /\ (last.backend => last.be_size = last.size))
        /\ (cfg.corruption_fault.present /\ cfg.corruption_fault.probability = 0) =>
               /\ ~last.corrupt
               /\ (last.backend /\ last.op = FS_OP_WRITE) =>
                      last.be_buf = SubSeq(last.buf, 1, last.be_size)

C6_Witness ==
    /\ cfg = ProbPlan(0, 0, 0, 0)
    /\ last.op = FS_OP_WRITE
    /\ last.backend
    /\ last.ret = MaxSize

\* C7: under an enabled plan a probabilistic fault with probability 1 and a
\* mask that includes the operation fires on every call of the operation: the
\* error fault fails the call, and on a call that reaches the backend the
\* delay fault has slept, the partial fault has set the size of a non-empty
\* READ or WRITE, and the corruption fault has corrupted the bytes of a
\* non-empty WRITE (when the copy was allocated) or of a READ of n > 0 bytes.
C7_ProbabilityOne ==
    (cfg.enable_fault_injection /\ calls > 0) =>
        /\ Certain(cfg.error_fault, last.op) => last.short
        /\ last.backend =>
            /\ Certain(cfg.delay_fault, last.op) => last.slept
            /\ (Certain(cfg.partial_fault, last.op) /\ last.size > 0
                /\ last.op \in {FS_OP_READ, FS_OP_WRITE}) => last.partial
            /\ (Certain(cfg.corruption_fault, last.op)
                /\ cfg.corruption_fault.percentage > 0
                /\ \/ last.op = FS_OP_WRITE /\ last.be_size > 0 /\ ~last.alloc_failed
                   \/ last.op = FS_OP_READ /\ last.ret > 0) => last.corrupt

\* The masks of the configured faults
ConfiguredMasks ==
    {f[2] : f \in {g \in { <<cfg.error_fault.present, cfg.error_fault.operations_mask>>,
                            <<cfg.corruption_fault.present, cfg.corruption_fault.operations_mask>>,
                            <<cfg.delay_fault.present, cfg.delay_fault.operations_mask>>,
                            <<cfg.timing_fault.present, cfg.timing_fault.operations_mask>>,
                            <<cfg.operation_count_fault.present,
                              cfg.operation_count_fault.operations_mask>>,
                            <<cfg.partial_fault.present, cfg.partial_fault.operations_mask>> }
                    : g[1]}}

\* C8: a fault acts on a call only if the operation is in its mask, and a
\* call whose operation is in no configured fault's mask (a WRITE or any
\* other non-READ call under faults with operations = read) is not failed,
\* delayed, shortened or corrupted: it returns what the backend returns.
C8_MaskHonored ==
    calls > 0 =>
        /\ last.error => InMask(cfg.error_fault.operations_mask, last.op)
        /\ last.timing => InMask(cfg.timing_fault.operations_mask, last.op)
        /\ last.count => InMask(cfg.operation_count_fault.operations_mask, last.op)
        /\ last.slept => InMask(cfg.delay_fault.operations_mask, last.op)
        /\ last.partial => InMask(cfg.partial_fault.operations_mask, last.op)
        /\ last.corrupt => InMask(cfg.corruption_fault.operations_mask, last.op)
        /\ (\A m \in ConfiguredMasks : ~InMask(m, last.op)) =>
               /\ ~last.short /\ ~last.slept /\ ~last.partial /\ ~last.corrupt
               /\ last.backend =>
                      (last.identical /\ last.be_size = last.size
                       /\ (last.op = FS_OP_WRITE => last.be_buf = last.buf))
               /\ last.op # FS_OP_WRITE => last.identical

C8_Witness ==
    /\ cfg = AllFaults({FS_OP_READ})
    /\ last.op = FS_OP_WRITE
    /\ last.backend
    /\ last.ret = MaxSize

\* C9: bytes_written equals the sum of the positive return codes of the
\* WRITE calls made so far.
C9_BytesWrittenIsSumOfResults == stats.bytes_written = sumWrite

\* The timing fault is enabled with a threshold that the clock has reached
TimingCrossed ==
    /\ cfg.enable_fault_injection
    /\ cfg.timing_fault.present
    /\ cfg.timing_fault.enabled
    /\ cfg.timing_fault.after_minutes > 0
    /\ now - stats.start_time >= 60 * cfg.timing_fault.after_minutes

\* A call is made, after the threshold, of an operation in the timing mask
CallAfterThreshold ==
    /\ TimingCrossed
    /\ calls' = calls + 1
    /\ InMask(cfg.timing_fault.operations_mask, last'.op)

PartialSize(s, factor) == Max(1, (s * factor) \div ProbOne)

\* C11: when the partial fault fires on a READ or WRITE of original size s,
\* the size handed to the backend is max(1, floor(s * factor)), it lies in
\* [1, s], and a WRITE returns it, for every factor a loaded plan can hold.
C11_PartialBound ==
    (calls > 0 /\ last.partial) =>
        /\ last.be_size = PartialSize(last.size, cfg.partial_fault.factor)
        /\ 1 <= last.be_size /\ last.be_size <= last.size
        /\ last.op = FS_OP_WRITE => last.ret = last.be_size
        /\ last.ret <= last.size

\* A call is made on which the partial fault alone fires, with a factor
\* in [0, 1]
PartialAlone(l) ==
    /\ l.partial /\ ~l.corrupt /\ ~l.slept /\ ~l.short
    /\ cfg.partial_fault.factor <= ProbOne

\* C12: a WRITE of s bytes of b at offset o on which only the partial fault
\* fires stores exactly the first s' = max(1, floor(s * factor)) bytes of b at
\* o and returns s'; an un-faulted READ of s bytes at o that follows, the file
\* ending where the write ended, returns exactly those s' bytes.
C12_PartialWriteStoresPrefix ==
    [][/\ (calls' = calls + 1 /\ last'.op = FS_OP_WRITE /\ PartialAlone(last')) =>
            LET n == PartialSize(last'.size, cfg.partial_fault.factor)
                o == last'.offset
            IN /\ last'.ret = n
               /\ Len(fs'.data) = Max(Len(fs.data), o + n)
               /\ \A i \in 1 .. Len(fs'.data) :
                     fs'.data[i] = IF i > o /\ i <= o + n THEN last'.buf[i - o]
                                   ELSE IF i <= Len(fs.data) THEN fs.data[i]
                                   ELSE 0
       /\ (/\ last.op = FS_OP_WRITE /\ PartialAlone(last)
           /\ Len(fs.data) = last.offset + last.be_size
           /\ calls' = calls + 1
           /\ last'.op = FS_OP_READ /\ last'.backend /\ ~last'.partial
           /\ last'.size = last.size /\ last'.offset = last.offset) =>
              /\ last'.ret = last.be_size
              /\ SubSeq(last'.buf, 1, last'.ret) = SubSeq(last.buf, 1, last.be_size)
              /\ \A i \in last'.ret + 1 .. last'.size : last'.buf[i] = Untouched]_vars

C12_Witness ==
    /\ cfg.partial_fault.present /\ cfg.partial_fault.factor = 50
    /\ last.op = FS_OP_READ
    /\ last.size = MaxSize
    /\ sumWrite > 0 /\ sumWrite < MaxSize
    /\ Len(fs.data) = sumWrite
    /\ last.ret = sumWrite
    /\ last.buf[1] = 1

\* The positions of the buffer handed to the backend that differ from the
\* caller's bytes
MutatedPositions(l) == {i \in 1 .. l.be_size : l.be_buf[i] # l.buf[i]}

\* C13: when the corruption fault fires on a buffer of length L with
\* percentage P > 0, exactly max(1, floor(L * P / 100)) byte positions of the
\* buffer are mutated, all of them inside the buffer.
C13_CorruptionBound ==
    (calls > 0 /\ last.corrupt /\ cfg.corruption_fault.percentage > 0) =>
        /\ Len(last.be_buf) = last.be_size
        /\ Cardinality(MutatedPositions(last))
               = Max(1, (last.be_size * cfg.corruption_fault.percentage) \div ProbOne)

\* The caller's buffer as it is handed to the wrapper
BufferBefore(l) ==
    IF l.op = FS_OP_READ THEN CallerBuffer(l.size)
    ELSE IF l.op = FS_OP_WRITE THEN CallerData(l.size)
    ELSE <<>>

\* C14: a call that the error, timing or count fault fails does not reach
\* the backend: the backing store, the caller's buffer and the byte counters
\* are as before the call, and the call returns the injected code.
C14_ShortCircuitEffectFree ==
    [][(calls' = calls + 1 /\ last'.short) =>
          /\ ~last'.backend
          /\ fs' = fs
          /\ last'.buf = BufferBefore(last')
          /\ stats'.bytes_read = stats.bytes_read
          /\ stats'.bytes_written = stats.bytes_written
          /\ last'.ret = IF last'.error THEN cfg.error_fault.error_code ELSE 0 - EIO]_vars

C14_Witness ==
    /\ cfg.error_fault.present /\ cfg.error_fault.operations_mask = {FS_OP_READ}
    /\ sumWrite = MaxSize
    /\ last.op = FS_OP_READ /\ last.size = MaxSize
    /\ last.error /\ last.ret = 0 - EIO
    /\ last.buf = CallerBuffer(MaxSize)
    /\ stats.bytes_read = 0

\* C15: a WRITE on which only the corruption fault fires returns the full
\* requested size, as the un-faulted write does, and the backend stores the
\* corrupted bytes; a READ, outside the corruption mask, returns exactly the
\* bytes the store holds and changes nothing.
C15_SilentWriteCorruption ==
    [][/\ (/\ calls' = calls + 1
           /\ last'.op = FS_OP_WRITE
           /\ last'.corrupt /\ ~last'.partial /\ ~last'.slept) =>
              /\ last'.ret = last'.size
              /\ Len(last'.be_buf) = last'.size
              /\ Len(fs'.data) >= last'.offset + last'.size
              /\ SubSeq(fs'.data, last'.offset + 1, last'.offset + last'.size)
                     = last'.be_buf
       /\ (/\ calls' = calls + 1
           /\ last'.op = FS_OP_READ
           /\ last'.backend
           /\ ~InMask(cfg.corruption_fault.operations_mask, FS_OP_READ)) =>
              /\ fs' = fs
              /\ ~last'.corrupt
              /\ last'.ret = Max(0, Min(last'.size, Len(fs.data) - last'.offset))
              /\ \A i \in 1 .. last'.ret : last'.buf[i] = fs.data[last'.offset + i]]_vars

C15_Witness ==
    /\ cfg.corruption_fault.present /\ cfg.corruption_fault.percentage = 50
    /\ sumWrite = MaxSize
    /\ last.op = FS_OP_READ /\ last.offset = 0
    /\ last.ret = MaxSize
    /\ last.buf = fs.data
    /\ last.buf # CallerData(MaxSize)

\* C16: a call on which the delay fault fires is not failed by it and
\* returns what the same call returns without the delay: with no other fault
\* firing it does exactly what the backend operation does, and the size and
\* bytes handed to the backend are the caller's unless the partial or the
\* corruption fault, which still apply on the same call, changed them.
C16_DelayIsResultNeutral ==
    (calls > 0 /\ last.slept) =>
        /\ ~last.short
        /\ (~last.partial /\ ~last.corrupt) => last.identical
        /\ last.backend =>
            /\ last.be_size = IF last.partial
                              THEN PartialSize(last.size, cfg.partial_fault.factor)
                              ELSE last.size
            /\ (last.op = FS_OP_WRITE /\ ~last.corrupt) =>
                   last.be_buf = SubSeq(last.buf, 1, last.be_size)
            /\ last.op = FS_OP_WRITE => last.ret = last.be_size

C16_Witness ==
    /\ last.slept /\ last.partial /\ last.corrupt
    /\ last.op = FS_OP_WRITE
    /\ last.size = MaxSize
    /\ last.ret > 0

\* C17: under every interleaving of the threads no counter of the ledger
\* (operation_count, the per-operation counts, bytes_read, bytes_written)
\* is lower in a state than in the state before it.
C17_CountersNeverDecrease ==
    [][/\ stats'.operation_count >= stats.operation_count
       /\ \A op \in Ops : stats'.op_counts[op] >= stats.op_counts[op]
       /\ stats'.bytes_read >= stats.bytes_read
       /\ stats'.bytes_written >= stats.bytes_written]_vars

\* The operations that modify the backing store
Modifying ==
    {FS_OP_WRITE, FS_OP_CHMOD, FS_OP_CHOWN, FS_OP_TRUNCATE, FS_OP_UTIMENS, FS_OP_CREATE,
     FS_OP_MKDIR, FS_OP_RMDIR, FS_OP_UNLINK, FS_OP_RENAME}

\* The result of the access check of a modifying operation on store fsys:
\* write access to the file, to an existing file for create, and to the
\* parent directory for mkdir, rmdir, unlink and rename
AccessCheck(op, fsys) ==
    IF op \in {FS_OP_WRITE, FS_OP_CHMOD, FS_OP_CHOWN, FS_OP_TRUNCATE, FS_OP_UTIMENS}
    THEN fs_op_access(fsys, {W_OK})
    ELSE IF op = FS_OP_CREATE
    THEN IF fsys.exists THEN fs_op_access(fsys, {W_OK}) ELSE 0
    ELSE check_root_perms(fsys, {W_OK})

\* C18: a call of a modifying operation that is not short-circuited and
\* whose access check fails returns the check's error and leaves the backing
\* store alone; for write, with or without a file handle and with fault
\* injection enabled or disabled.
C18_PermissionChecksUnconditional ==
    [][(/\ calls' = calls + 1
        /\ last'.op \in Modifying
        /\ ~last'.short
        /\ AccessCheck(last'.op, fs) # 0) =>
           /\ last'.ret = AccessCheck(last'.op, fs)
           /\ fs' = fs]_vars

\* The probabilities of the faults of plan c lie in [0, 1], its corruption
\* percentage in [0, 100] and its partial factor in [0, 1]
ValidPlan(c) ==
    /\ c.error_fault.present =>
           (0 <= c.error_fault.probability /\ c.error_fault.probability <= ProbOne)
    /\ c.delay_fault.present =>
           (0 <= c.delay_fault.probability /\ c.delay_fault.probability <= ProbOne)
    /\ c.corruption_fault.present =>
           /\ 0 <= c.corruption_fault.probability
           /\ c.corruption_fault.probability <= ProbOne
           /\ 0 <= c.corruption_fault.percentage
           /\ c.corruption_fault.percentage <= 100
    /\ c.partial_fault.present =>
           /\ 0 <= c.partial_fault.probability
           /\ c.partial_fault.probability <= ProbOne
           /\ 0 <= c.partial_fault.factor
           /\ c.partial_fault.factor <= ProbOne

\* C19: a configuration with a probability, percentage or factor out of
\* range fails the load, so the plan of a successful load, and the plan in
\* force while requests are served, is always in range.
C19_ConfigValidated ==
    (proc.loaded \/ proc.pc = "fuse_main") => ValidPlan(cfg)

\* C20: when --config is given and the load fails, main exits with a
\* non-zero code and never serves a request.
C20_StartupAbortsOnConfigFailure ==
    (proc.config_file # "NULL" /\ ~proc.loaded /\ proc.pc \notin {"main", "config"}) =>
        (proc.pc = "exited" /\ proc.ret # 0 /\ calls = 0)

\* The value a setting takes from the sources in their order of precedence:
\* command line, configuration file, environment, built-in default
Precedence(cli, conf, env, default) ==
    IF cli # "NULL" THEN cli
    ELSE IF conf # "NULL" THEN conf
    ELSE IF env # "NULL" THEN env
    ELSE default

\* The value of key k in the configuration file main was started with
FromFile(k) ==
    IF proc.config_file = "NULL" THEN "NULL"
    ELSE Key(FileAt(proc.config_file).global, k, "NULL")

\* The log level a source gives, when it gives one
Level(v, default) == IF v = "NULL" THEN default ELSE atoi(v)

\* C21: once main has applied the command line, storage path, log file and
\* log level each hold the command line's value when the option is given
\* (--loglevel=0 included), otherwise the configuration file's, otherwise
\* the environment's, otherwise the built-in default.
C21_OverrideOrder ==
    proc.pc \in {"init", "fuse_main"} =>
        /\ proc.settings.storage_path =
               Precedence(proc.argv.storage, FromFile("storage_path"),
                          proc.env.NAS_STORAGE_PATH, Defaults.storage_path)
        /\ proc.settings.log_file =
               Precedence(proc.argv.log, FromFile("log_file"),
                          proc.env.NAS_LOG_FILE, Defaults.log_file)
        /\ proc.settings.log_level =
               Level(Precedence(proc.argv.loglevel, FromFile("log_level"),
                                proc.env.NAS_LOG_LEVEL, "NULL"),
                     Defaults.log_level)

\* Values time(NULL) can return at a call in another run: at the start,
\* one minute and two minutes later
ClockReadings == {0, 60, 120}

\* What the engine decides and returns in the current state for a getattr,
\* a read and a write of size bytes, when time(NULL) returns t and the
\* rand() draws are d
EngineAt(t, size, d) ==
    [getattr |-> SimpleWrapper(cfg, stats, t, fs, FS_OP_GETATTR, d.error, d.delay, 0,
                               fs_op_getattr(fs)),
     read |-> ReadWrapper(cfg, stats, t, fs, CallerBuffer(size), size, 0, "NULL", d),
     write |-> WriteWrapper(cfg, stats, t, fs, CallerData(size), size, 0, "NULL", d)]

\* The rand() draws of one call
DrawRecords ==
    [error : Draws(cfg.error_fault), delay : Draws(cfg.delay_fault),
     partial : Draws(cfg.partial_fault), corrupt1 : Draws(cfg.corruption_fault),
     corrupt2 : Draws(cfg.corruption_fault)]

\* Both clock readings are before the timing threshold, or both are at or
\* after it
SameSide(t1, t2) ==
    ((t1 - stats.start_time) < 60 * cfg.timing_fault.after_minutes)
        = ((t2 - stats.start_time) < 60 * cfg.timing_fault.after_minutes)

Occurrences(h, e) == Cardinality({i \in 1 .. Len(h) : h[i] = e})

\* C23: in a WRITE call that allocated the corruption copy, the copy is
\* freed exactly once, by the last statement that touches it, whether the
\* backend succeeded, the backend failed or apply_corruption_fault
\* declined; the backend is handed the copy only before the free.
C23_ScopedCorruptionBuffer ==
    (last.op = FS_OP_WRITE /\ last.heap # <<>>) =>
        /\ last.heap[1] = "malloc"
        /\ Occurrences(last.heap, "malloc") = 1
        /\ Occurrences(last.heap, "free") = 1
        /\ last.heap[Len(last.heap)] = "free"
        /\ last.corrupt = (Occurrences(last.heap, "fs_op_write") = 1)

C23_Witness ==
    /\ last.op = FS_OP_WRITE
    /\ last.heap # <<>>
    /\ last.corrupt
    /\ last.ret = 0 - ENOSPC
    /\ calls = MaxCalls

\* C24: a WRITE in which malloc fails for the corruption copy calls the
\* backend with the caller's buffer and the size the partial fault left,
\* returns what the backend returns, and adds a positive result to
\* bytes_written.
C24_AllocationFailureFallsBack ==
    [][(/\ calls' = calls + 1
        /\ last'.op = FS_OP_WRITE
        /\ last'.alloc_failed) =>
           LET size1 == IF last'.partial
                        THEN PartialSize(last'.size, cfg.partial_fault.factor)
                        ELSE last'.size
               be == fs_op_write(fs, last'.buf, size1, last'.offset, last'.fi)
           IN /\ last'.backend /\ ~last'.corrupt
              /\ last'.heap = <<>>
              /\ last'.be_size = size1
              /\ last'.be_buf = SubSeq(last'.buf, 1, size1)
              /\ last'.buf = CallerData(last'.size)
              /\ last'.ret = be.ret
              /\ fs' = be.fs
              /\ stats'.bytes_written =
                     stats.bytes_written + (IF be.ret > 0 THEN be.ret ELSE 0)]_vars

C24_Witness ==
    /\ last.op = FS_OP_WRITE
    /\ last.alloc_failed
    /\ last.partial
    /\ last.ret = 1
    /\ stats.bytes_written = 1

\* What a section header alone sets each field of its fault to
SectionDefaults ==
    [error_fault |-> [probability |-> 50, error_code |-> 0 - EIO,
                      operations_mask |-> MASK_ALL],
     corruption_fault |-> [probability |-> 50, percentage |-> 10, silent |-> TRUE,
                           operations_mask |-> {FS_OP_WRITE}],
     delay_fault |-> [probability |-> 50, delay_ms |-> 500, operations_mask |-> MASK_ALL],
     timing_fault |-> [enabled |-> FALSE, after_minutes |-> 5,
                       operations_mask |-> MASK_ALL],
     operation_count_fault |-> [enabled |-> FALSE, every_n_operations |-> 10,
                                after_bytes |-> 1024 * 1024,
                                operations_mask |-> MASK_ALL],
     partial_fault |-> [probability |-> 50, factor |-> 50,
                        operations_mask |-> {FS_OP_READ, FS_OP_WRITE}]]

\* The value field f takes from the text v of its key
FieldValue(f, v) == IF f \in {"enabled", "silent"} THEN ParseBool(v) ELSE v

\* C25: after a successful load every section of the file has its fault
\* allocated, each field a key of the section names holds that key's value,
\* and every other field holds the section's default: probability 0.5,
\* corruption percentage 10, silent, mask {write}; partial mask {read,
\* write}; mask all for the other faults; timing and count not enabled.
C25_SectionDefaults ==
    proc.loaded =>
        \A sec \in DOMAIN FileAt(proc.config_file).sections :
            /\ cfg[sec].present
            /\ \A f \in DOMAIN SectionDefaults[sec] :
                   LET keys == FileAt(proc.config_file).sections[sec]
                   IN cfg[sec][f] = IF f \in DOMAIN keys THEN FieldValue(f, keys[f])
                                    ELSE SectionDefaults[sec][f]

C25_Witness ==
    /\ proc.loaded
    /\ proc.config_file = "defaults.conf"
    /\ cfg.corruption_fault.present
    /\ cfg.corruption_fault.operations_mask = {FS_OP_WRITE}
    /\ ~cfg.timing_fault.enabled

\* C26: with fault injection enabled every call, of every operation and
\* whatever its outcome, adds one to operation_count and one to the
\* operation's own counter and changes no other operation's counter; a
\* count fault that fires was evaluated on the count that includes the call.
C26_EveryCallCountedOnce ==
    [][(calls' = calls + 1 /\ cfg.enable_fault_injection) =>
          /\ stats'.operation_count = stats.operation_count + 1
          /\ stats'.op_counts = [stats.op_counts EXCEPT ![last'.op] = @ + 1]
          /\ (last'.count /\ cfg.operation_count_fault.after_bytes = 0) =>
                 stats'.operation_count % cfg.operation_count_fault.every_n_operations = 0]_vars

\* C27: a WRITE of at least one byte that reaches the corruption step with
\* write in the corruption mask and a percentage above 0, whose probability
\* trigger succeeded and whose copy was allocated, hands the backend a
\* corrupted copy, whatever rand() returns afterwards.
C27_OneTriggerCorruptsWrite ==
    [][(/\ calls' = calls + 1
        /\ last'.op = FS_OP_WRITE
        /\ last'.heap # <<>>
        /\ last'.be_size > 0
        /\ InMask(cfg.corruption_fault.operations_mask, FS_OP_WRITE)
        /\ cfg.corruption_fault.percentage > 0
        /\ cfg.corruption_fault.percentage <= 100) =>
           /\ last'.corrupt
           /\ last'.backend]_vars

\* Byte i of the file after size bytes of buf are written at offset
Written(data, buf, size, offset, i) ==
    IF i > offset /\ i <= offset + size THEN buf[i - offset]
    ELSE IF i <= Len(data) THEN data[i]
    ELSE 0

\* C28: in a WRITE on which both the partial and the corruption fault fire
\* the backend gets the reduced size' and a buffer of exactly size' bytes,
\* each either the caller's byte or a byte the corruption loop drew; the
\* file changes at the size' positions from the offset on only, and the
\* caller's buffer holds after the call what it held before.
C28_CorruptionConfined ==
    [][(/\ calls' = calls + 1
        /\ last'.op = FS_OP_WRITE
        /\ last'.partial /\ last'.corrupt) =>
           LET size1 == PartialSize(last'.size, cfg.partial_fault.factor)
           IN /\ size1 <= last'.size
              /\ last'.be_size = size1
              /\ Len(last'.be_buf) = size1
              /\ \A i \in 1 .. size1 :
                     \/ last'.be_buf[i] = CallerData(last'.size)[i]
                     \/ last'.be_buf[i] \in 0 .. RandMax
              /\ last'.buf = CallerData(last'.size)
              /\ ~fs.full =>
                     /\ last'.ret = size1
                     /\ Len(fs'.data) = Max(Len(fs.data), last'.offset + size1)
                     /\ \A i \in 1 .. Len(fs'.data) :
                            fs'.data[i] = Written(fs.data, last'.be_buf, size1,
                                                  last'.offset, i)
              /\ fs.full => fs' = fs]_vars

C28_Witness ==
    /\ last.op = FS_OP_WRITE
    /\ last.partial /\ last.corrupt
    /\ last.size = MaxSize
    /\ last.offset = 1
    /\ last.be_buf # SubSeq(CallerData(MaxSize), 1, last.be_size)
    /\ last.ret = last.be_size
    /\ Len(fs.data) >= MaxSize

\* C29: with fault injection enabled and the timing fault enabled, a call
\* of an operation in its mask that the error fault does not fail first is
\* failed by the timing fault with -EIO exactly when the time since
\* start_time is at least after_minutes, for after_minutes = 0 as well.
C29_TimingFiringCondition ==
    [][(/\ calls' = calls + 1
        /\ cfg.enable_fault_injection
        /\ cfg.timing_fault.present /\ cfg.timing_fault.enabled
        /\ InMask(cfg.timing_fault.operations_mask, last'.op)
        /\ ~last'.error) =>
           ((last'.timing /\ last'.ret = 0 - EIO /\ ~last'.backend)
                <=> (now - stats.start_time >= 60 * cfg.timing_fault.after_minutes))]_vars

\* The bytes transferred so far have reached the count fault's threshold
BytesReached(st) ==
    st.bytes_read + st.bytes_written >= cfg.operation_count_fault.after_bytes

\* C30: with the count fault enabled, after_bytes > 0 and every_n_operations
\* = 0, a call of an operation in the mask is failed by the count fault with
\* -EIO, before the backend, exactly when bytes_read + bytes_written as they
\* stand before the call have reached after_bytes; and once they have
\* reached it they stay there.
C30_ByteThresholdSticky ==
    [][(/\ cfg.enable_fault_injection
        /\ cfg.operation_count_fault.present /\ cfg.operation_count_fault.enabled
        /\ cfg.operation_count_fault.every_n_operations = 0
        /\ cfg.operation_count_fault.after_bytes > 0) =>
           /\ BytesReached(stats) => BytesReached(stats')
           /\ (/\ calls' = calls + 1
               /\ InMask(cfg.operation_count_fault.operations_mask, last'.op)) =>
                  ((last'.count /\ last'.ret = 0 - EIO /\ ~last'.backend
                        /\ fs' = fs /\ stats'.bytes_written = stats.bytes_written
                        /\ stats'.bytes_read = stats.bytes_read)
                       <=> BytesReached(stats))
           /\ (/\ calls' = calls + 1
               /\ ~InMask(cfg.operation_count_fault.operations_mask, last'.op)) =>
                  ~last'.count]_vars

C30_Witness ==
    /\ cfg.operation_count_fault.present
    /\ cfg.operation_count_fault.every_n_operations = 0
    /\ cfg.operation_count_fault.after_bytes = MaxSize
    /\ stats.bytes_read + stats.bytes_written = MaxSize
    /\ calls >= 2
    /\ last.count /\ last.op = FS_OP_WRITE /\ last.size > 0


\* The draws of one call when rand() returns r at each of them
DrawsAll(r) == [error |-> r, delay |-> r, partial |-> r, corrupt1 |-> r, corrupt2 |-> r]

\* C31: with enable_fault_injection = false every call, of every operation,
\* leaves operation_count and every op_counts entry as they were, and what a
\* getattr, a read and a write do is the same whether rand() would return
\* its least or its greatest value: no draw is made.
C31_DisabledFreezesCounters ==
    [][(~cfg.enable_fault_injection /\ calls' = calls + 1) =>
          /\ stats'.operation_count = stats.operation_count
          /\ stats'.op_counts = stats.op_counts
          /\ ~last'.short /\ ~last'.slept /\ ~last'.partial /\ ~last'.corrupt
          /\ EngineAt(now, MaxSize, DrawsAll(0)) = EngineAt(now, MaxSize, DrawsAll(RandMax))]_vars

C31_Witness ==
    /\ ~cfg.enable_fault_injection
    /\ cfg.error_fault.present /\ cfg.error_fault.probability = 50
    /\ calls = MaxCalls
    /\ last.op = FS_OP_READ /\ last.ret = MaxSize
    /\ stats.bytes_read = MaxSize
    /\ stats.operation_count = 0


\* The number of draws the claim of C32 gives for a buffer of L bytes and a
\* percentage P
StrikesOf(L, P) ==
    LET k == (L * P) \div 100
    IN IF P = 0 THEN 0
       ELSE IF k = 0 THEN 1
       ELSE IF k > L THEN L
       ELSE k

\* The indexes at which two buffers of the same length differ
Changed(a, b) == {i \in 1 .. Len(a) : a[i] # b[i]}

\* C32: on a buffer of L >= 1 bytes with percentage P in 0..100 the
\* corruption routine draws exactly k (index, byte) pairs, k = floor(L*P/100)
\* raised to 1 when P > 0 and capped at L; every index is in [0, L), the
\* buffer keeps its length and changes only at drawn indexes, and with P = 0
\* nothing is drawn and the buffer is unchanged.
C32_StrikeCount ==
    (calls = 1 /\ last.size >= 1) =>
        LET L == last.size
            P == cfg.corruption_fault.percentage
        IN /\ Len(last.strikes) = StrikesOf(L, P)
           /\ Len(last.positions) = StrikesOf(L, P)
           /\ \A i \in 1 .. Len(last.positions) : last.positions[i] \in 0 .. L - 1
           /\ Len(last.be_buf) = L
           /\ Changed(last.buf, last.be_buf)
                  \subseteq {last.positions[i] + 1 : i \in 1 .. Len(last.positions)}
           /\ P = 0 => last.be_buf = last.buf

\* Every byte selected, the same index drawn at every iteration
C32_Witness ==
    /\ calls = 1
    /\ cfg.corruption_fault.percentage = 100
    /\ last.size = MaxLen
    /\ Len(last.strikes) = MaxLen
    /\ \A i \in 1 .. MaxLen : last.positions[i] = 1
    /\ Cardinality(Changed(last.buf, last.be_buf)) = 1


\* C33: a call that the wrapper's access check denies, of an operation on
\* which the delay fault is certain to fire, has slept before the check.
C33_DelayBeforeAccessCheck ==
    [][(/\ calls' = calls + 1
        /\ last'.denied
        /\ cfg.enable_fault_injection
        /\ Certain(cfg.delay_fault, last'.op)) => last'.slept]_vars


\* C34: once every thread has returned, operation_count is the number of
\* calls made when they were all counted ones (getattr and read), and
\* bytes_read and bytes_written are the sums of the results of the reads and
\* of the writes.
C34_NoLostUpdates ==
    (\A t \in Threads : thr[t].pc = "idle") =>
        /\ sumWrite = 0 => stats.operation_count = calls
        /\ stats.bytes_read = sumRead
        /\ stats.bytes_written = sumWrite


\* C35: a thread inside the sleep of the delay fault does not hold
\* log_mutex; the mutex is held only by a thread between the lock and the
\* unlock of log_message, log_close or log_init.
C35_SleepHoldsNoLock ==
    /\ \A t \in Threads : thr[t].pc = "usleep" => logger.mutex # t
    /\ logger.mutex # 0 =>
          thr[logger.mutex].pc \in {"log_write", "close_body", "init_level", "init_open"}

\* While one thread sleeps, a request that arrived on the other thread
\* after that has gone through the backend, written its exit line to the
\* log and returned
C35_Witness ==
    \E s \in Threads, u \in Threads :
        /\ s # u
        /\ thr[s].pc = "usleep" /\ thr[s].overtaken
        /\ thr[u].pc = "idle"
        /\ "handle" \in DOMAIN last
        /\ last.thread = u /\ last.level = LOG_DEBUG
        /\ last.handle = "file" /\ last.open
        /\ logger.mutex = 0

\* C38: every write of log_message goes to a handle that is not NULL and
\* is open, and the level of the message written is not above the log
\* level in force at the write.
C38_LoggerSafeAgainstClose ==
    ("handle" \in DOMAIN last) =>
        /\ last.handle # "NULL"
        /\ last.open
        /\ last.level <= last.current


\* C37: over any sequence of fault_injector_init and check_probability
\* calls srand is called at most once, a call of either function leaves the
\* generator seeded (so it is seeded at or before the first draw), a seeded
\* generator is never seeded again, and a fault_injector_init on a seeded
\* generator zeroes the ledger and leaves the seed alone.
C37_SeedAppliedOnce ==
    [][/\ rng'.srand_calls <= 1
       /\ rng.seeded => rng' = rng
       /\ (calls' = calls + 1
           /\ last'.call \in {"fault_injector_init", "check_probability"}) =>
              (rng'.seeded /\ rng'.srand_calls = 1)
       /\ (calls' = calls + 1 /\ last'.call = "fault_injector_init") =>
              /\ stats'.operation_count = 0
              /\ stats'.bytes_read = 0 /\ stats'.bytes_written = 0
              /\ stats'.start_time = now]_vars

\* A second fault_injector_init, half a minute after the first and after a
\* call was counted: the ledger is reset, srand was called once
C37_Witness ==
    /\ calls = MaxCalls + 1
    /\ last.call = "fault_injector_init"
    /\ last.seeded_before /\ last.count_before = 1
    /\ stats.operation_count = 0 /\ stats.start_time = 30
    /\ rng.seeded /\ rng.srand_calls = 1


\* C36: the mask parsed from a comma-separated list, with or without blanks
\* around its items, affects exactly the operations whose names were
\* written; names that are not defined and empty items add nothing; the
\* empty string affects no operation and the strings "all" and "*" affect
\* every operation.
C36_MaskParsingRoundTrip ==
    (calls = 1 /\ "text" \in DOMAIN last) =>
        /\ last.text \in {<<"all">>, <<"*">>} =>
              \A op \in Ops : config_should_affect_operation(last.mask, op)
        /\ last.text \notin {<<"all">>, <<"*">>} =>
              \A op \in Ops : config_should_affect_operation(last.mask, op)
                                  <=> fs_op_names[op] \in last.words
        /\ last.text = <<>> =>
              \A op \in Ops : ~config_should_affect_operation(last.mask, op)

\* " read ,write": blanks around the first name, none around the second
C36_Witness ==
    /\ calls = 1
    /\ "text" \in DOMAIN last
    /\ last.text = <<" ", "read", " ", ",", "write">>
    /\ last.mask = {FS_OP_READ, FS_OP_WRITE}
    /\ config_should_affect_operation(last.mask, FS_OP_WRITE)
    /\ ~config_should_affect_operation(last.mask, FS_OP_GETATTR)

====
